---- MODULE Spec2Model ----
(***************************************************************************)
(* The workflow engine of graphfusionai.team.Team: execute_workflow,       *)
(* _execute_workflow_internal, _execute_workflow_step and their helpers,   *)
(* as a state machine over one run of one workflow definition.             *)
(*                                                                         *)
(* Python values are represented as follows.                               *)
(*   - a dict is a function; the empty dict is <<>>;                       *)
(*   - an insertion-ordered dict keyed by step id (pending) is a sequence  *)
(*     of step records with pairwise different ids;                        *)
(*   - an optional key of a step dict is a sequence of length 0 (the key   *)
(*     is absent) or 1 (the key is present with that value);               *)
(*   - None is the sequence <<>> where a number is expected (the timeout   *)
(*     argument) and the value PyNone where a capability result is.        *)
(* Time is counted in whole seconds; asyncio.sleep(0.1) is shorter than    *)
(* one unit.                                                               *)
(*                                                                         *)
(* Smaller components follow the engine, each with a specification of its *)
(* own over its own variables: Agent.execute_task with the reports it      *)
(* makes to its team (AgentSpec), Team._resolve_templates as a function    *)
(* applied to drawn arguments (ResolverSpec), planning.TaskPlanner         *)
(* (PlannerSpec, FairPlannerSpec), memory.MemoryManager (MemorySpec),      *)
(* distributed.DistributedExecutor (ExecutorSpec),                         *)
(* state_manager.StateManager (StateSpec) and Team.broadcast               *)
(* (BroadcastSpec).  In the specification of one component the variables   *)
(* of the others keep the values they have before the component is used.   *)
(***************************************************************************)
EXTENDS Integers, Sequences, FiniteSets, TLC

VARIABLES
    workflow,   \* the workflow definition passed to execute_workflow
    timeout,    \* the timeout argument of execute_workflow: <<>> (None) or <<n>>
    pc,         \* where the coordinator is: called, loop, gather, sleep, returned, raised
    pending,    \* _execute_workflow_internal: pending (ordered dict id -> step)
    completed,  \* _execute_workflow_internal: completed (dict id -> capability result)
    failed,     \* _execute_workflow_internal: failed (dict id -> error)
    context,    \* _execute_workflow_internal: context (dict id -> result value)
    running,    \* the step tasks of the current round that are awaiting their capability
    now,        \* the event loop's clock
    results,    \* what execute_workflow returned (status, completed, failed)
    exc,        \* the exception execute_workflow raised to its caller, "" if none
    calls,      \* history: id -> number of times the step's capability was invoked
    evals,      \* history: id -> the outcomes of the evaluations of the conditional's when
    dispatched, \* history: id -> the steps handed to _execute_workflow_step under it
    \* Agent.execute_task
    agent_task,      \* the task dict passed to execute_task
    capabilities,    \* Agent.capabilities: name -> the kind of callable
    team,            \* Agent.team: "Team" or "None"
    team_task_queue, \* Team.task_queue
    knowledge,       \* the knowledge nodes of GraphManager.graph
    apc,             \* where execute_task is: idle, called, ran, returned, raised
    outcome,         \* what the capability did and what execute_task gave its caller
    \* Team._resolve_templates
    resolver_input,  \* the argument input_data
    resolver_context,\* the argument context
    resolved,        \* the dict the call returned
    rpc,             \* idle, called, returned
    \* planning.TaskPlanner
    strategy,        \* TaskPlanner.strategy
    agent_script,    \* the capacities of the add_agent calls still to be made
    task_script,     \* the Task objects of the add_task calls still to be made
    agents,          \* TaskPlanner.agents: the agents in the order they were added
    agent_cycle,     \* TaskPlanner.agent_cycle: the agent next() returns
    tasks,           \* the Task objects added: task_id -> priority, dependencies, status
    task_graph,      \* the edges of TaskPlanner.task_graph
    task_queue,      \* TaskPlanner.task_queue
    pending_tasks,   \* TaskPlanner.pending_tasks
    ppc,             \* idle, setup, outer, inner, done
    handed,          \* history: the task_ids of the Agent.assign_task calls, in order
    retried,         \* history: "Retrying pending tasks..." has been printed
    \* memory.MemoryManager
    mem_calls,       \* thread -> the call of the manager the thread makes
    mem_pc,          \* thread -> where the thread is in its call
    lock,            \* MemoryManager.lock: the thread that holds it, "" when free
    shared_memory,   \* MemoryManager.shared_memory
    memory_file,     \* the content of memory_file on disk
    \* distributed.DistributedExecutor
    mode,            \* DistributedExecutor.mode
    remote_nodes,    \* DistributedExecutor.remote_nodes
    exec_script,     \* the tasks of the execute_task calls still to be made
    node_script,     \* the outcomes of the next connects: TRUE when the connect fails
    threads,         \* DistributedExecutor.threads: the tasks of the threads started
    failed_tasks,    \* DistributedExecutor.failed_tasks
    retry_index,     \* retry_failed_tasks: the position of the list iterator
    resubmitted,     \* history: the tasks retry_failed_tasks passed to execute_task
    dpc,             \* idle, setup, retry, returned
    \* state_manager.StateManager
    objects,         \* the dict objects: objects[n] is the content of object n
    branches,        \* StateManager.branches: branch -> the object that is its state
    state_history,   \* StateManager.state_history: records of branch and state object
    last_op,         \* history: the last call of the manager and whether it raised
    ops_done,        \* history: the number of calls made
    \* Team.broadcast
    team_agents,     \* the keys of Team.agents, in insertion order
    sender_id,       \* the argument sender_id
    message,         \* the argument message
    broadcast_index, \* the position of the iteration over self.agents
    coroutines,      \* the coroutine objects the send_message calls created
    received,        \* history: agent_id -> the number of receive_message runs
    bpc              \* idle, called, returned

engineVars == <<workflow, timeout, pc, pending, completed, failed, context,
                running, now, results, exc, calls, evals, dispatched>>

agentVars == <<agent_task, capabilities, team, team_task_queue, knowledge, apc, outcome>>

resolverVars == <<resolver_input, resolver_context, resolved, rpc>>

plannerVars == <<strategy, agent_script, task_script, agents, agent_cycle, tasks,
                 task_graph, task_queue, pending_tasks, ppc, handed, retried>>

memoryVars == <<mem_calls, mem_pc, lock, shared_memory, memory_file>>

executorVars == <<mode, remote_nodes, exec_script, node_script, threads,
                  failed_tasks, retry_index, resubmitted, dpc>>

stateVars == <<objects, branches, state_history, last_op, ops_done>>

broadcastVars == <<team_agents, sender_id, message, broadcast_index,
                   coroutines, received, bpc>>

vars == <<engineVars, agentVars, resolverVars, plannerVars, memoryVars,
          executorVars, stateVars, broadcastVars>>

\* the variables the actions of one component leave alone
outsideEngine == <<agentVars, resolverVars, plannerVars, memoryVars,
                   executorVars, stateVars, broadcastVars>>

outsideAgent == <<engineVars, resolverVars, plannerVars, memoryVars,
                  executorVars, stateVars, broadcastVars>>

outsideResolver == <<engineVars, agentVars, plannerVars, memoryVars,
                     executorVars, stateVars, broadcastVars>>

outsidePlanner == <<engineVars, agentVars, resolverVars, memoryVars,
                    executorVars, stateVars, broadcastVars>>

outsideMemory == <<engineVars, agentVars, resolverVars, plannerVars,
                   executorVars, stateVars, broadcastVars>>

outsideExecutor == <<engineVars, agentVars, resolverVars, plannerVars,
                     memoryVars, stateVars, broadcastVars>>

outsideState == <<engineVars, agentVars, resolverVars, plannerVars,
                  memoryVars, executorVars, broadcastVars>>

outsideBroadcast == <<engineVars, agentVars, resolverVars, plannerVars,
                      memoryVars, executorVars, stateVars>>

----------------------------------------------------------------------------
(* Bounds of the model and constants of the program                        *)

\* retries values of the generated steps range over 0..MaxRetries
MaxRetries == 2

\* the planner's scripts make at most MaxAgents add_agent calls and at most
\* MaxTasks add_task calls
MaxAgents == 2

MaxTasks == 3

\* the executor's scripts make at most MaxSubmits execute_task calls before
\* retry_failed_tasks, and at most the first MaxOutages connects to the
\* remote node fail
MaxSubmits == 2

MaxOutages == 3

\* a run of the state manager makes at most MaxOps calls; rollback_state
\* is called with steps in 1..MaxSteps
MaxOps == 3

MaxSteps == 2

\* step.get("timeout", 1.0)
DefaultStepTimeout == 1

\* execute_workflow(..., timeout = 300)
DefaultWorkflowTimeout == 300

\* the tests' slow capability: asyncio.sleep(10)
SlowTaskDuration == 10

\* the tests call execute_workflow(workflow, timeout=2)
ShortWorkflowTimeout == 2

\* a step timeout longer than the slow capability (workflow_demo: "timeout": 30)
LongStepTimeout == 30

----------------------------------------------------------------------------
(* Python dict helpers                                                     *)

Has(opt) == opt # <<>>

Get(opt) == opt[1]

EmptyDict == <<>>

\* d[k] = v
DictPut(d, k, v) == (k :> v) @@ d

\* the keys of an ordered dict of steps
Keys(p) == {p[i].id : i \in DOMAIN p}

\* p[step["id"]] = step on an insertion-ordered dict: an existing key keeps
\* its position and gets the new value, a new key goes last
OrderedPut(p, step) ==
    IF \E i \in DOMAIN p : p[i].id = step.id
    THEN [i \in DOMAIN p |-> IF p[i].id = step.id THEN step ELSE p[i]]
    ELSE Append(p, step)

\* del p[id]
OrderedDel(p, id) == SelectSeq(p, LAMBDA s : s.id # id)

RECURSIVE OrderedPutAll(_, _)
\* for step in steps: p[step["id"]] = step
OrderedPutAll(p, steps) ==
    IF steps = <<>> THEN p
    ELSE OrderedPutAll(OrderedPut(p, Head(steps)), Tail(steps))

Min(S) == CHOOSE x \in S : \A y \in S : x <= y

----------------------------------------------------------------------------
(* Step dicts                                                              *)

\* a concrete step: {"id", "agent_id", "task", "input", "depends_on",
\* "timeout", "retries", "parallel"}; agent_id and tmo are optional keys
Step(id, agent_id, task, input, deps, tmo, retries, par) ==
    [id |-> id, when |-> <<>>, then |-> <<>>, else |-> <<>>,
     agent_id |-> agent_id, task |-> task, input |-> input,
     depends_on |-> deps, timeout |-> tmo, retries |-> retries,
     parallel |-> par]

\* a conditional step: {"id", "when", "then", "else", "depends_on"};
\* els is the optional "else" key
Cond(id, when, deps, then, els) ==
    [id |-> id, when |-> <<when>>, then |-> then, else |-> els,
     agent_id |-> <<>>, task |-> "", input |-> EmptyDict,
     depends_on |-> deps, timeout |-> <<>>, retries |-> 0,
     parallel |-> FALSE]

\* "when" in step
HasWhen(step) == Has(step.when)

\* step.get("depends_on", []): a list read only through membership tests
\* and its truthiness, kept as a set
DependsOn(step) == step.depends_on

\* step.get("timeout", 1.0)
StepTimeout(step) ==
    IF Has(step.timeout) THEN Get(step.timeout) ELSE DefaultStepTimeout

\* step.get("else", [])
ElseBranch(step) == IF Has(step.else) THEN Get(step.else) ELSE <<>>

\* Team.agents: the registry the tests build (agent1, agent2, slow)
Agents == {"agent1", "agent2", "slow"}

----------------------------------------------------------------------------
(* Capability results                                                      *)

\* a capability result that is a mapping with a "result" entry
PyDict(r) == [type |-> "dict", result |-> r]

\* a capability result that is no mapping (asyncio.sleep returns None)
PyNone == [type |-> "none", result |-> "None"]

\* Agent.capabilities of the agents of the tests
Capabilities(agent_id) ==
    IF agent_id = "slow" THEN {"slow_task"} ELSE {"execute"}

\* Agent.execute_capability(task, input) on the agents of the tests: how
\* long the call takes and how it ends.  "execute" returns {"result": x} at
\* once, "slow_task" sleeps SlowTaskDuration and returns None, a name that
\* is no capability of the agent raises.
ExecuteCapability(agent_id, task, input) ==
    CASE task \notin Capabilities(agent_id) ->
            [dur |-> 0, raises |-> TRUE, error |-> "Unknown capability",
             value |-> PyNone]
      [] task = "execute" ->
            [dur |-> 0, raises |-> FALSE, error |-> "",
             value |-> PyDict(IF "value" \in DOMAIN input
                              THEN input["value"] ELSE "None")]
      [] OTHER ->
            [dur |-> SlowTaskDuration, raises |-> FALSE, error |-> "",
             value |-> PyNone]

----------------------------------------------------------------------------
(* Template resolver                                                       *)

\* the names the template strings of the model refer to
TemplateNames == {"s1", "s2", "zz"}

\* the blanks value[2:-2].strip() removes around the name
Pads == {"", " "}

\* the string {{name}}, with blanks around the name or without
Template(pad, name) == "{{" \o pad \o name \o pad \o "}}"

\* isinstance(value, str) and value.startswith("{{") and value.endswith("}}")
IsTemplate(value) ==
    \E pad \in Pads : \E name \in TemplateNames : value = Template(pad, name)

\* var_name = value[2:-2].strip()
VarName(value) ==
    CHOOSE name \in TemplateNames : \E pad \in Pads : value = Template(pad, name)

\* a variant of ResolveTemplates with context.get(var_name) in place of
\* context.get(var_name, value)
ResolveTemplatesNoDefault(input_data, ctx) ==
    [key \in DOMAIN input_data |->
        LET value == input_data[key]
        IN  IF IsTemplate(value)
            THEN IF VarName(value) \in DOMAIN ctx
                 THEN ctx[VarName(value)] ELSE "None"
            ELSE value]

\* Team._resolve_templates(input_data, context): a template value becomes
\* context.get(var_name, value), every other value is copied
ResolveTemplates(input_data, ctx) ==
    [key \in DOMAIN input_data |->
        LET value == input_data[key]
        IN  IF IsTemplate(value) /\ VarName(value) \in DOMAIN ctx
            THEN ctx[VarName(value)]
            ELSE value]

----------------------------------------------------------------------------
(* Condition evaluator                                                     *)

\* The when expressions of the model and what Python's eval makes of them
\* with the context as locals and the restricted builtins as globals.
WhenTrue == "1 == 1"
WhenFalse == "1 == 2"
WhenS1 == "s1 == '1'"
WhenMalformed == "1 =="
WhenResults == "results['s1'] == '1'"

\* eval(condition, safe_globals, context) raises: SyntaxError for the
\* malformed expression, NameError for a name that is neither a key of the
\* context nor one of the builtins
EvalRaises(condition, ctx) ==
    \/ condition = WhenMalformed
    \/ condition = WhenResults
    \/ condition = WhenS1 /\ "s1" \notin DOMAIN ctx

\* a variant of EvaluateCondition that returns True from except Exception
EvaluateConditionFailTrue(condition, ctx) ==
    \/ EvalRaises(condition, ctx)
    \/ condition = WhenTrue
    \/ condition = WhenS1 /\ ctx["s1"] = "1"

\* bool(eval(condition, safe_globals, context)), False on any exception
EvaluateCondition(condition, ctx) ==
    CASE condition = WhenTrue -> TRUE
      [] condition = WhenFalse -> FALSE
      [] condition = WhenS1 ->
            \* NameError when s1 is no key of the context
            IF "s1" \in DOMAIN ctx THEN ctx["s1"] = "1" ELSE FALSE
      [] condition = WhenResults -> FALSE  \* NameError: results
      [] OTHER -> FALSE                     \* SyntaxError

----------------------------------------------------------------------------
(* Ready-set scheduler: the body of the round loop                         *)

\* a variant of DepsMet that also accepts a dependency that has failed
DepsMetTerminal(step, done) ==
    \A dep \in DependsOn(step) : dep \in DOMAIN done \cup DOMAIN failed

\* all(dep in completed for dep in step.get("depends_on", []))
DepsMet(step, done) == \A dep \in DependsOn(step) : dep \in DOMAIN done

\* [s for s in pending.values() if "when" in s]
Conditionals(p) == SelectSeq(p, HasWhen)

RECURSIVE ExpandConditionalsThenOnly(_, _, _, _)
\* a variant of ExpandConditionals that puts the then branch whatever the
\* outcome of the evaluation
ExpandConditionalsThenOnly(conds, p, done, ctx) ==
    IF conds = <<>> THEN p
    ELSE LET step == Head(conds)
         IN  IF DepsMet(step, done)
             THEN ExpandConditionalsThenOnly(Tail(conds),
                      OrderedPutAll(OrderedDel(p, step.id), step.then), done, ctx)
             ELSE ExpandConditionalsThenOnly(Tail(conds), p, done, ctx)

RECURSIVE ExpandConditionalsKeep(_, _, _, _)
\* a variant of ExpandConditionals without del pending[step["id"]]
ExpandConditionalsKeep(conds, p, done, ctx) ==
    IF conds = <<>> THEN p
    ELSE LET step == Head(conds)
             branch == IF EvaluateCondition(Get(step.when), ctx)
                       THEN step.then ELSE ElseBranch(step)
         IN  IF DepsMet(step, done)
             THEN ExpandConditionalsKeep(Tail(conds),
                      OrderedPutAll(p, branch), done, ctx)
             ELSE ExpandConditionalsKeep(Tail(conds), p, done, ctx)

RECURSIVE ExpandConditionals(_, _, _, _)
\* for step in conditionals: if its dependencies are met, evaluate when,
\* delete the step from pending and put the steps of the chosen branch
ExpandConditionals(conds, p, done, ctx) ==
    IF conds = <<>> THEN p
    ELSE LET step == Head(conds)
             branch == IF EvaluateCondition(Get(step.when), ctx)
                       THEN step.then ELSE ElseBranch(step)
         IN  IF DepsMet(step, done)
             THEN ExpandConditionals(Tail(conds),
                      OrderedPutAll(OrderedDel(p, step.id), branch), done, ctx)
             ELSE ExpandConditionals(Tail(conds), p, done, ctx)

\* the ids of the conditionals whose when the loop above evaluates
Evaluated(conds, done) ==
    {conds[i].id : i \in {j \in DOMAIN conds : DepsMet(conds[j], done)}}

\* the history of evaluations with those of one round added: the outcome of
\* _evaluate_condition for every conditional whose dependencies are met
Evals(f, conds, done, ctx) ==
    [id \in DOMAIN f \cup Evaluated(conds, done) |->
        (IF id \in DOMAIN f THEN f[id] ELSE <<>>)
            \o (IF id \in Evaluated(conds, done)
                THEN LET step == SelectSeq(conds, LAMBDA c : c.id = id)[1]
                     IN  <<EvaluateCondition(Get(step.when), ctx)>>
                ELSE <<>>)]

\* executable = [step for step in pending.values()
\*               if all(dep in completed ...) and "when" not in step]
Executable(p, done) ==
    SelectSeq(p, LAMBDA step : DepsMet(step, done) /\ ~HasWhen(step))

\* not any(step.get("depends_on") for step in pending.values())
NoneDepends(p) == \A i \in DOMAIN p : DependsOn(p[i]) = {}

\* a variant of FinalStatus that reports partial whenever a step failed
FinalStatusNoFailed(done, bad) ==
    IF DOMAIN bad = {} THEN "completed" ELSE "partial"

\* the status execute_workflow derives from the maps the round loop returns
FinalStatus(done, bad) ==
    IF DOMAIN bad = {} THEN "completed"
    ELSE IF DOMAIN done # {} THEN "partial"
    ELSE "failed"

----------------------------------------------------------------------------
(* Step executor                                                           *)

AgentNotFound(agent_id) == [error |-> "Agent not found", arg |-> agent_id]

TimedOut(n) == [error |-> "Step timed out after", arg |-> ToString(n)]

Raised(e) == [error |-> e, arg |-> ""]

\* step["agent_id"] raises KeyError before the try block is entered
RaisesKeyError(step) == ~Has(step.agent_id)

\* agent = self.agents.get(step["agent_id"]); if not agent: ...
AgentMissing(step) == Has(step.agent_id) /\ Get(step.agent_id) \notin Agents

\* a variant of Invokes without the if not agent: return of the executor
InvokesUnregistered(step) == Has(step.agent_id)

\* the step reaches agent.execute_capability(...)
Invokes(step) == Has(step.agent_id) /\ Get(step.agent_id) \in Agents

RECURSIVE StartSteps(_, _)
\* the first part of _execute_workflow_step for each task of the round, in
\* the order the tasks were created: a step whose agent is not registered
\* is recorded in failed at once
StartSteps(steps, bad) ==
    IF steps = <<>> THEN bad
    ELSE LET step == Head(steps)
         IN  StartSteps(Tail(steps),
                 IF AgentMissing(step)
                 THEN DictPut(bad, step.id, AgentNotFound(Get(step.agent_id)))
                 ELSE bad)

\* the task that awaits asyncio.wait_for(agent.execute_capability(...))
Task(step, at) == [id |-> step.id, step |-> step, started |-> at]

\* step.get("input", {}): the parameters handed to the capability
Params(step) == step.input

\* the capability call a running task made
TaskCall(t) ==
    ExecuteCapability(Get(t.step.agent_id), t.step.task, Params(t.step))

\* asyncio.wait_for raises TimeoutError: when the timeout is not positive,
\* or when the capability takes longer than the timeout
MustTimeOut(t) ==
    StepTimeout(t.step) <= 0 \/ TaskCall(t).dur > StepTimeout(t.step)

\* the capability ends at the very moment the timer fires: either may win
MayTimeOut(t) ==
    MustTimeOut(t) \/ TaskCall(t).dur = StepTimeout(t.step)

\* when the task resumes after its await
FinishTime(t) ==
    IF StepTimeout(t.step) <= 0 THEN t.started
    ELSE IF TaskCall(t).dur > StepTimeout(t.step)
         THEN t.started + StepTimeout(t.step)
         ELSE t.started + TaskCall(t).dur

\* f[id] + 1 for a history counter
Bump(f, ids) ==
    [id \in DOMAIN f \cup ids |->
        (IF id \in DOMAIN f THEN f[id] ELSE 0) + (IF id \in ids THEN 1 ELSE 0)]

Range(seq) == {seq[i] : i \in DOMAIN seq}

\* the history of dispatches with the steps of one round added
Dispatched(f, steps) ==
    [id \in DOMAIN f \cup Keys(steps) |->
        (IF id \in DOMAIN f THEN f[id] ELSE <<>>)
            \o SelectSeq(steps, LAMBDA s : s.id = id)]

\* a variant of FinishedStep without the except asyncio.TimeoutError clause:
\* the timeout is recorded by except Exception with str(e), which is empty
FinishedStepNoTimeoutClause(t, timed_out, done, bad, ctx) ==
    LET call == TaskCall(t)
    IN  IF timed_out \/ call.raises
        THEN [completed |-> done, context |-> ctx,
              failed |-> DictPut(bad, t.id,
                            Raised(IF timed_out THEN "" ELSE call.error))]
        ELSE IF call.value.type = "dict"
        THEN [completed |-> DictPut(done, t.id, call.value),
              context |-> DictPut(ctx, t.id, call.value.result),
              failed |-> bad]
        ELSE [completed |-> DictPut(done, t.id, call.value),
              context |-> ctx,
              failed |-> DictPut(bad, t.id, Raised("AttributeError"))]

\* a variant of FinishedStep in which a result is written to every entry of
\* the context
FinishedStepSharedContext(t, timed_out, done, bad, ctx) ==
    LET call == TaskCall(t)
    IN  IF timed_out
        THEN [completed |-> done, context |-> ctx,
              failed |-> DictPut(bad, t.id, TimedOut(StepTimeout(t.step)))]
        ELSE IF call.raises
        THEN [completed |-> done, context |-> ctx,
              failed |-> DictPut(bad, t.id, Raised(call.error))]
        ELSE IF call.value.type = "dict"
        THEN [completed |-> DictPut(done, t.id, call.value),
              context |-> [k \in DOMAIN ctx \cup {t.id} |-> call.value.result],
              failed |-> bad]
        ELSE [completed |-> DictPut(done, t.id, call.value),
              context |-> ctx,
              failed |-> DictPut(bad, t.id, Raised("AttributeError"))]

\* a variant of FinishedStep in which a failure is recorded only while
\* failed is empty
FinishedStepFirstFailureOnly(t, timed_out, done, bad, ctx) ==
    LET call == TaskCall(t)
    IN  IF timed_out \/ call.raises
        THEN [completed |-> done, context |-> ctx,
              failed |-> IF bad = EmptyDict
                         THEN DictPut(bad, t.id,
                                 IF timed_out THEN TimedOut(StepTimeout(t.step))
                                 ELSE Raised(call.error))
                         ELSE bad]
        ELSE IF call.value.type = "dict"
        THEN [completed |-> DictPut(done, t.id, call.value),
              context |-> DictPut(ctx, t.id, call.value.result),
              failed |-> bad]
        ELSE [completed |-> DictPut(done, t.id, call.value),
              context |-> ctx,
              failed |-> DictPut(bad, t.id, Raised("AttributeError"))]

\* The second part of _execute_workflow_step, after the await: what the
\* task writes to completed, failed and context.  timed_out tells whether
\* wait_for raised TimeoutError.
FinishedStep(t, timed_out, done, bad, ctx) ==
    LET call == TaskCall(t)
    IN  IF timed_out
        THEN [completed |-> done, context |-> ctx,
              failed |-> DictPut(bad, t.id, TimedOut(StepTimeout(t.step)))]
        ELSE IF call.raises
        THEN [completed |-> done, context |-> ctx,
              failed |-> DictPut(bad, t.id, Raised(call.error))]
        ELSE IF call.value.type = "dict"
        THEN [completed |-> DictPut(done, t.id, call.value),
              context |-> DictPut(ctx, t.id, call.value.result),
              failed |-> bad]
        \* completed[step_id] = result has run when result.get raises
        \* AttributeError, which except Exception records in failed
        ELSE [completed |-> DictPut(done, t.id, call.value),
              context |-> ctx,
              failed |-> DictPut(bad, t.id, Raised("AttributeError"))]

----------------------------------------------------------------------------
(* Workflow definitions and timeout arguments the runs are started with    *)

In(v) == [value |-> v]

\* what a generated step may be: capability, agent, timeout and retries
StepOptions ==
    {[agent_id |-> <<"agent1">>, task |-> "execute", timeout |-> <<>>, retries |-> 0],
     [agent_id |-> <<"slow">>, task |-> "slow_task", timeout |-> <<>>, retries |-> 0],
     [agent_id |-> <<"slow">>, task |-> "slow_task", timeout |-> <<LongStepTimeout>>, retries |-> 0],
     [agent_id |-> <<"ghost">>, task |-> "execute", timeout |-> <<>>, retries |-> 0]}
    \cup {[agent_id |-> <<"agent2">>, task |-> "fail", timeout |-> <<DefaultStepTimeout>>, retries |-> r] :
            r \in {0, MaxRetries}}
    \cup {[agent_id |-> <<"ghost">>, task |-> "execute", timeout |-> <<>>, retries |-> MaxRetries]}

OptStep(id, opt, deps, par) ==
    Step(id, opt.agent_id, opt.task, In("1"), deps, opt.timeout, opt.retries, par)

\* one to three steps s1, s2, s3, each depending on earlier ones only
DagWorkflows ==
    {<<OptStep("s1", o1, {}, TRUE)>> : o1 \in StepOptions}
    \cup {<<OptStep("s1", o1, {}, TRUE), OptStep("s2", o2, d2, FALSE),
            OptStep("s3", o3, d3, FALSE)>> :
            o1 \in StepOptions, o2 \in StepOptions, o3 \in StepOptions,
            d2 \in SUBSET {"s1"}, d3 \in SUBSET {"s1", "s2"}}

PlainStep(id, deps) ==
    Step(id, <<"agent1">>, "execute", In("1"), deps, <<DefaultStepTimeout>>, 0, FALSE)

\* two steps with any dependencies among themselves and on an id zz that
\* names no step: cycles, self-dependencies, dangling references
GraphWorkflows ==
    {<<PlainStep("s1", d1), PlainStep("s2", d2)>> :
        d1 \in SUBSET {"s1", "s2", "zz"}, d2 \in SUBSET {"s1", "s2", "zz"}}

\* the steps a branch of a conditional may hold: none, one, a chain, a step
\* under the id of the top-level step s1, a nested conditional
Branches ==
    {<<>>,
     <<PlainStep("t1", {})>>,
     <<PlainStep("t1", {"s1"}), PlainStep("t2", {"t1"})>>,
     <<Step("s1", <<"agent1">>, "execute", In("2"), {}, <<DefaultStepTimeout>>, 0, FALSE),
       PlainStep("t2", {"s1"})>>}
    \cup {<<Cond("c2", w, {}, <<PlainStep("t1", {})>>, <<>>)>> :
            w \in {WhenTrue, WhenFalse}}

Whens == {WhenTrue, WhenFalse, WhenS1, WhenMalformed, WhenResults}

\* a conditional step, alone or after a step s1 it may depend on
CondWorkflows ==
    {<<Cond("c1", w, {}, th, el)>> :
        w \in Whens, th \in Branches, el \in {<<>>} \cup {<<b>> : b \in Branches}}
    \cup {<<OptStep("s1", o1, {}, TRUE), Cond("c1", w, d, th, el)>> :
        o1 \in StepOptions, w \in {WhenTrue, WhenS1}, d \in SUBSET {"s1"},
        th \in Branches, el \in {<<>>, <<<<PlainStep("f1", {})>>>>}}

\* the values of a step input that look like templates: a reference to s1,
\* the same with blanks, a reference to an id that names no step, and a
\* value in single braces, which is no template
TemplateValues ==
    {Template("", "s1"), Template(" ", "s1"), Template("", "zz"), "{s1}"}

\* a step s1 and a step s2 whose input refers to the result of s1
TemplateWorkflows ==
    {<<OptStep("s1", o1, {}, TRUE),
       Step("s2", <<"agent1">>, "execute", In(v), d2, <<>>, 0, FALSE)>> :
        o1 \in StepOptions, v \in TemplateValues, d2 \in SUBSET {"s1"}}

\* malformed definitions: a step without agent_id, two steps with one id
MalformedWorkflows ==
    {<<PlainStep("s1", {}),
       Step("s2", <<>>, "execute", In("1"), d, <<>>, 0, FALSE)>> : d \in SUBSET {"s1"}}
    \cup {<<PlainStep("s1", {}), OptStep("s1", o, {}, FALSE), PlainStep("s2", {"s1"})>> :
            o \in StepOptions}

Workflows ==
    {[steps |-> w] : w \in DagWorkflows \cup GraphWorkflows \cup CondWorkflows
                          \cup TemplateWorkflows \cup MalformedWorkflows}

\* None, an expired deadline, the deadline of the tests, the default
TimeoutArgs ==
    {<<>>, <<0>>, <<ShortWorkflowTimeout>>, <<DefaultWorkflowTimeout>>}

----------------------------------------------------------------------------
(* The run                                                                 *)

NoResults == [status |-> "", completed |-> EmptyDict, failed |-> EmptyDict]

\* a variant of TimeoutResults that keeps the progress made
TimeoutResultsWithProgress ==
    [status |-> "timeout", completed |-> completed, failed |-> failed]

\* return {"status": "timeout", "completed": {}, "failed": {}}
TimeoutResults ==
    [status |-> "timeout", completed |-> EmptyDict, failed |-> EmptyDict]

\* no workflow has been passed to execute_workflow
EngineIdle ==
    /\ workflow = [steps |-> <<>>]
    /\ timeout = <<>>
    /\ pc = "idle"
    /\ pending = <<>>
    /\ completed = EmptyDict
    /\ failed = EmptyDict
    /\ context = EmptyDict
    /\ running = {}
    /\ now = 0
    /\ results = NoResults
    /\ exc = ""
    /\ calls = EmptyDict
    /\ evals = EmptyDict
    /\ dispatched = EmptyDict

\* execute_task has not been called
AgentIdle ==
    /\ agent_task = EmptyDict
    /\ capabilities = EmptyDict
    /\ team = "None"
    /\ team_task_queue = <<>>
    /\ knowledge = <<>>
    /\ apc = "idle"
    /\ outcome = EmptyDict

\* _resolve_templates has not been called
ResolverIdle ==
    /\ resolver_input = EmptyDict
    /\ resolver_context = EmptyDict
    /\ resolved = EmptyDict
    /\ rpc = "idle"

\* no TaskPlanner has been constructed
PlannerIdle ==
    /\ strategy = ""
    /\ agent_script = <<>>
    /\ task_script = <<>>
    /\ agents = <<>>
    /\ agent_cycle = 0
    /\ tasks = EmptyDict
    /\ task_graph = {}
    /\ task_queue = <<>>
    /\ pending_tasks = <<>>
    /\ ppc = "idle"
    /\ handed = <<>>
    /\ retried = FALSE

\* no MemoryManager has been constructed
MemoryIdle ==
    /\ mem_calls = EmptyDict
    /\ mem_pc = EmptyDict
    /\ lock = ""
    /\ shared_memory = EmptyDict
    /\ memory_file = EmptyDict

\* no DistributedExecutor has been constructed
ExecutorIdle ==
    /\ mode = ""
    /\ remote_nodes = <<>>
    /\ exec_script = <<>>
    /\ node_script = <<>>
    /\ threads = <<>>
    /\ failed_tasks = <<>>
    /\ retry_index = 0
    /\ resubmitted = <<>>
    /\ dpc = "idle"

\* no StateManager has been constructed
StateIdle ==
    /\ objects = <<>>
    /\ branches = EmptyDict
    /\ state_history = <<>>
    /\ last_op = [kind |-> ""]
    /\ ops_done = 0

\* no broadcast has been called
BroadcastIdle ==
    /\ team_agents = <<>>
    /\ sender_id = ""
    /\ message = EmptyDict
    /\ broadcast_index = 0
    /\ coroutines = <<>>
    /\ received = EmptyDict
    /\ bpc = "idle"

\* the components that the workflow engine, the agent, the resolver and
\* the planner do not use
OthersIdle ==
    /\ MemoryIdle
    /\ ExecutorIdle
    /\ StateIdle
    /\ BroadcastIdle

Init ==
    /\ AgentIdle
    /\ ResolverIdle
    /\ PlannerIdle
    /\ OthersIdle
    /\ workflow \in Workflows
    /\ timeout \in TimeoutArgs
    /\ pc = "called"
    /\ pending = <<>>
    /\ completed = EmptyDict
    /\ failed = EmptyDict
    /\ context = EmptyDict
    /\ running = {}
    /\ now = 0
    /\ results = NoResults
    /\ exc = ""
    /\ calls = EmptyDict
    /\ evals = EmptyDict
    /\ dispatched = EmptyDict

\* execute_workflow is called: wait_for with a timeout that is not positive
\* cancels the coroutine before it runs; otherwise _execute_workflow_internal
\* builds pending from workflow["steps"]
Call ==
    /\ pc = "called"
    /\ IF Has(timeout) /\ Get(timeout) <= 0
       THEN /\ pc' = "returned"
            /\ results' = TimeoutResults
            /\ UNCHANGED pending
       ELSE /\ pc' = "loop"
            /\ pending' = OrderedPutAll(<<>>, workflow.steps)
            /\ UNCHANGED results
    /\ UNCHANGED <<workflow, timeout, completed, failed, context, running,
                   now, exc, calls, evals, dispatched>>
    /\ UNCHANGED outsideEngine

\* a variant of AtLoopHead without the await of asyncio.gather
AtLoopHeadNoBarrier == pc \in {"loop", "gather", "sleep"}

\* the coordinator is at the head of the round loop: it has just started,
\* or gather has returned, or the sleep is over
AtLoopHead ==
    \/ pc = "loop"
    \/ pc = "gather" /\ running = {}
    \/ pc = "sleep"

\* pending after the conditionals of this round are expanded
Expanded ==
    ExpandConditionals(Conditionals(pending), pending, completed, context)

\* the executable steps of this round
Ready == Executable(Expanded, completed)

\* while pending: is false; execute_workflow derives the status
ReturnResults ==
    /\ AtLoopHead
    /\ pending = <<>>
    /\ pc' = "returned"
    /\ results' = [status |-> FinalStatus(completed, failed),
                   completed |-> completed, failed |-> failed]
    /\ UNCHANGED <<workflow, timeout, pending, completed, failed, context,
                   running, now, exc, calls, evals, dispatched>>
    /\ UNCHANGED outsideEngine

\* no executable step and no pending step with a depends_on: RuntimeError
RaiseDeadlock ==
    /\ AtLoopHead
    /\ pending # <<>>
    /\ Ready = <<>>
    /\ NoneDepends(Expanded)
    /\ pc' = "raised"
    /\ exc' = "RuntimeError: Workflow deadlock"
    /\ pending' = Expanded
    /\ evals' = Evals(evals, Conditionals(pending), completed, context)
    /\ UNCHANGED <<workflow, timeout, completed, failed, context, running,
                   now, results, calls, dispatched>>
    /\ UNCHANGED outsideEngine

\* no executable step, some pending step has a depends_on: sleep(0.1), continue
Wait ==
    /\ AtLoopHead
    /\ pending # <<>>
    /\ Ready = <<>>
    /\ ~NoneDepends(Expanded)
    /\ pc' = "sleep"
    /\ pending' = Expanded
    /\ evals' = Evals(evals, Conditionals(pending), completed, context)
    /\ UNCHANGED <<workflow, timeout, completed, failed, context, running,
                   now, results, exc, calls, dispatched>>
    /\ UNCHANGED outsideEngine

\* a task is created for every executable step, the steps leave pending and
\* the coordinator awaits gather; the tasks run to their first await
Dispatch ==
    /\ AtLoopHead
    /\ pending # <<>>
    /\ Ready # <<>>
    /\ pending' = SelectSeq(Expanded, LAMBDA s : s.id \notin Keys(Ready))
    /\ evals' = Evals(evals, Conditionals(pending), completed, context)
    /\ dispatched' = Dispatched(dispatched, Ready)
    /\ failed' = StartSteps(Ready, failed)
    /\ calls' = Bump(calls, {s.id : s \in {x \in Range(Ready) : Invokes(x)}})
    /\ running' = {Task(s, now) : s \in {x \in Range(Ready) : Invokes(x)}}
    /\ IF \E s \in Range(Ready) : RaisesKeyError(s)
       THEN pc' = "raised" /\ exc' = "KeyError: agent_id"
       ELSE pc' = "gather" /\ UNCHANGED exc
    /\ UNCHANGED <<workflow, timeout, completed, context, now, results>>
    /\ UNCHANGED outsideEngine

\* a step task resumes after its await and records its outcome
FinishStep(t) ==
    /\ pc = "gather"
    /\ t \in running
    /\ now = FinishTime(t)
    /\ \E timed_out \in BOOLEAN :
        /\ timed_out => MayTimeOut(t)
        /\ ~timed_out => ~MustTimeOut(t)
        /\ LET out == FinishedStep(t, timed_out, completed, failed, context)
           IN  /\ completed' = out.completed
               /\ failed' = out.failed
               /\ context' = out.context
    /\ running' = running \ {t}
    /\ UNCHANGED <<workflow, timeout, pc, pending, now, results, exc, calls,
                   evals, dispatched>>
    /\ UNCHANGED outsideEngine

\* the timer of wait_for(self._execute_workflow_internal(workflow), timeout)
\* fires while the coordinator is suspended: the round loop and its tasks
\* are cancelled
Deadline ==
    /\ Has(timeout)
    /\ pc \in {"gather", "sleep"}
    /\ now >= Get(timeout)
    /\ pc' = "returned"
    /\ results' = TimeoutResults
    /\ running' = {}
    /\ UNCHANGED <<workflow, timeout, pending, completed, failed, context,
                   now, exc, calls, evals, dispatched>>
    /\ UNCHANGED outsideEngine

\* the timers that are set
Timers ==
    {FinishTime(t) : t \in running}
        \cup (IF Has(timeout) THEN {Get(timeout)} ELSE {})

\* time passes to the next timer while the coordinator is suspended and
\* nothing is due
Tick ==
    /\ pc \in {"gather", "sleep"}
    /\ ~(pc = "gather" /\ running = {})
    /\ Timers # {}
    /\ \A e \in Timers : e > now
    /\ now' = Min(Timers)
    /\ UNCHANGED <<workflow, timeout, pc, pending, completed, failed, context,
                   running, results, exc, calls, evals, dispatched>>
    /\ UNCHANGED outsideEngine

Next ==
    \/ Call
    \/ ReturnResults
    \/ RaiseDeadlock
    \/ Wait
    \/ Dispatch
    \/ \E t \in running : FinishStep(t)
    \/ Deadline
    \/ Tick

Spec == Init /\ [][Next]_vars

----------------------------------------------------------------------------
(* Agent.execute_task and the reports to the team                          *)

\* the parameters of GraphManager.add_knowledge after self
AddKnowledgeParams == <<"agent_id", "knowledge_type", "content">>

\* Python's binding of a call with n positional arguments and the keyword
\* arguments kw to the parameters params raises TypeError: too many
\* positional arguments, a parameter with two values, an unknown keyword,
\* or a parameter without a value
BindRaises(params, n, kw) ==
    \/ n > Len(params)
    \/ \E i \in 1..n : i <= Len(params) /\ params[i] \in kw
    \/ \E k \in kw : k \notin Range(params)
    \/ \E i \in (n + 1)..Len(params) : params[i] \notin kw

\* self.graph_manager.add_knowledge(agent_id, task["type"], result,
\*                                  knowledge_type=task["type"])
ReportBindRaises == BindRaises(AddKnowledgeParams, 3, {"knowledge_type"})

\* loop.run_in_executor(None, capability, **parameters): run_in_executor
\* takes (executor, func, *args) and no keyword arguments
ExecutorBindRaises(parameters) ==
    BindRaises(<<"executor", "func">>, 2, DOMAIN parameters)

\* a capability: a coroutine function or a plain function, one that returns
\* a result or one that raises
CapabilityKinds == [async : BOOLEAN, raises : BOOLEAN]

\* the capabilities an agent may be built with: none, or execute
CapabilitySets ==
    {EmptyDict} \cup {[name \in {"execute"} |-> kind] : kind \in CapabilityKinds}

\* the task dicts passed to execute_task: type absent, a capability name or
\* another name; parameters empty or not
AgentTasks ==
    [type : {<<>>, <<"execute">>, <<"unknown">>},
     parameters : {EmptyDict, [step |-> "1"]}]

\* a task that is in the team's queue before the call
QueuedTask == [type |-> <<"plan">>, parameters |-> EmptyDict]

NoOutcome == [capability |-> "", result |-> "", error |-> ""]

\* an agent with its capabilities and team, a team queue, and a call of
\* execute_task(task)
AgentInit ==
    /\ EngineIdle
    /\ ResolverIdle
    /\ PlannerIdle
    /\ OthersIdle
    /\ agent_task \in AgentTasks
    /\ capabilities \in CapabilitySets
    /\ team \in {"Team", "None"}
    /\ team_task_queue \in {<<>>, <<QueuedTask>>}
    /\ knowledge = <<>>
    /\ apc = "called"
    /\ outcome = NoOutcome

\* task.get("type"): None when the key is absent
TaskType == IF Has(agent_task.type) THEN Get(agent_task.type) ELSE "None"

\* if not self.capabilities: raise RuntimeError; if task_type not in
\* self.capabilities: raise ValueError -- both before the try block
RejectTask ==
    /\ apc = "called"
    /\ capabilities = EmptyDict \/ TaskType \notin DOMAIN capabilities
    /\ apc' = "raised"
    /\ outcome' = [outcome EXCEPT !.error =
                      IF capabilities = EmptyDict THEN "RuntimeError"
                      ELSE "ValueError"]
    /\ UNCHANGED <<agent_task, capabilities, team, team_task_queue, knowledge>>
    /\ UNCHANGED outsideAgent

\* the capability is awaited, or run in the executor: it returns a result,
\* or it raises, or the call of run_in_executor itself raises
RunCapability ==
    /\ apc = "called"
    /\ capabilities # EmptyDict
    /\ TaskType \in DOMAIN capabilities
    /\ LET capability == capabilities[TaskType]
       IN  IF ~capability.async /\ ExecutorBindRaises(agent_task.parameters)
           THEN /\ apc' = "except"
                /\ outcome' = [capability |-> "not called", result |-> "",
                               error |-> "TypeError"]
           ELSE IF capability.raises
           THEN /\ apc' = "except"
                /\ outcome' = [capability |-> "raised", result |-> "",
                               error |-> "CapabilityError"]
           ELSE /\ apc' = "ran"
                /\ outcome' = [capability |-> "returned", result |-> "done",
                               error |-> ""]
    /\ UNCHANGED <<agent_task, capabilities, team, team_task_queue, knowledge>>
    /\ UNCHANGED outsideAgent

\* self.team.report_task_completion(self.agent_id, task, result); return
\* result -- inside the try block
ReportCompletion ==
    /\ apc = "ran"
    /\ IF team = "None"
       THEN /\ apc' = "except"
            /\ outcome' = [outcome EXCEPT !.error = "AttributeError"]
            /\ UNCHANGED knowledge
       ELSE IF ReportBindRaises
       THEN /\ apc' = "except"
            /\ outcome' = [outcome EXCEPT !.error = "TypeError"]
            /\ UNCHANGED knowledge
       ELSE /\ apc' = "returned"
            /\ knowledge' = Append(knowledge,
                                [knowledge_type |-> TaskType,
                                 content |-> outcome.result])
            /\ UNCHANGED outcome
    /\ UNCHANGED <<agent_task, capabilities, team, team_task_queue>>
    /\ UNCHANGED outsideAgent

\* except Exception as e: self.team.report_task_failure(...), which puts the
\* task into Team.task_queue again; raise
ReportFailure ==
    /\ apc = "except"
    /\ apc' = "raised"
    /\ IF team = "None"
       THEN /\ outcome' = [outcome EXCEPT !.error = "AttributeError"]
            /\ UNCHANGED team_task_queue
       ELSE /\ team_task_queue' = Append(team_task_queue, agent_task)
            /\ UNCHANGED outcome
    /\ UNCHANGED <<agent_task, capabilities, team, knowledge>>
    /\ UNCHANGED outsideAgent

AgentNext ==
    \/ RejectTask
    \/ RunCapability
    \/ ReportCompletion
    \/ ReportFailure

AgentSpec == AgentInit /\ [][AgentNext]_vars

----------------------------------------------------------------------------
(* Team._resolve_templates applied to drawn arguments                      *)

\* the keys of the input maps
InputKeys == {"analysis", "data"}

\* the values of the input maps: a literal, references to s1 with and
\* without blanks, a reference to zz, a value in single braces
InputValues ==
    {"1", Template("", "s1"), Template(" ", "s1"), Template("", "zz"), "{s1}"}

InputMaps == UNION {[keys -> InputValues] : keys \in SUBSET InputKeys}

\* contexts with results of s1 and s2, or without
Contexts == UNION {[ids -> {"1", "2"}] : ids \in SUBSET {"s1", "s2"}}

\* a call of _resolve_templates(input_data, context)
ResolverInit ==
    /\ EngineIdle
    /\ AgentIdle
    /\ PlannerIdle
    /\ OthersIdle
    /\ resolver_input \in InputMaps
    /\ resolver_context \in Contexts
    /\ resolved = EmptyDict
    /\ rpc = "called"

\* the body of _resolve_templates: it fills a new dict and returns it; it
\* assigns to neither argument
Resolve ==
    /\ rpc = "called"
    /\ rpc' = "returned"
    /\ resolved' = ResolveTemplates(resolver_input, resolver_context)
    /\ UNCHANGED <<resolver_input, resolver_context>>
    /\ UNCHANGED outsideResolver

ResolverNext == Resolve

ResolverSpec == ResolverInit /\ [][ResolverNext]_vars

----------------------------------------------------------------------------
(* planning.TaskPlanner: a script of add_agent and add_task calls, then    *)
(* assign_tasks. The sqlite log is written and never read and is left out. *)
(* Positions in a heap are counted from 0 as heapq counts them;            *)
(* heap[pos + 1] is the item at pos.                                       *)

\* Task.__lt__ on the priorities prio of the tasks: higher priority first
Lt(prio, a, b) == prio[a] > prio[b]

\* the while loop of heapq._siftdown, carrying newitem up from pos
RECURSIVE SiftdownLoop(_, _, _, _, _)
SiftdownLoop(heap, prio, startpos, pos, newitem) ==
    IF pos > startpos
    THEN LET parentpos == (pos - 1) \div 2
             parent == heap[parentpos + 1]
         IN  IF Lt(prio, newitem, parent)
             THEN SiftdownLoop([heap EXCEPT ![pos + 1] = parent],
                               prio, startpos, parentpos, newitem)
             ELSE [heap EXCEPT ![pos + 1] = newitem]
    ELSE [heap EXCEPT ![pos + 1] = newitem]

\* heapq._siftdown(heap, startpos, pos)
Siftdown(heap, prio, startpos, pos) ==
    SiftdownLoop(heap, prio, startpos, pos, heap[pos + 1])

\* the while loop of heapq._siftup: the smaller child moves up until a leaf
\* is reached; gives the heap and the position of the leaf
RECURSIVE SiftupLoop(_, _, _)
SiftupLoop(heap, prio, pos) ==
    LET endpos == Len(heap)
        leftpos == 2 * pos + 1
        rightpos == leftpos + 1
        childpos == IF /\ rightpos < endpos
                       /\ ~Lt(prio, heap[leftpos + 1], heap[rightpos + 1])
                    THEN rightpos ELSE leftpos
    IN  IF leftpos < endpos
        THEN SiftupLoop([heap EXCEPT ![pos + 1] = heap[childpos + 1]], prio, childpos)
        ELSE [heap |-> heap, pos |-> pos]

\* heapq._siftup(heap, pos)
Siftup(heap, prio, pos) ==
    LET newitem == heap[pos + 1]
        leaf == SiftupLoop(heap, prio, pos)
    IN  Siftdown([leaf.heap EXCEPT ![leaf.pos + 1] = newitem], prio, pos, leaf.pos)

\* heapq.heappush(heap, item): the heap after the call
HeapPush(heap, prio, item) ==
    Siftdown(Append(heap, item), prio, 0, Len(heap))

\* a variant of HeapPop that takes the first item and leaves the rest in
\* place (list.pop(0))
HeapPopFront(heap, prio) == [item |-> Head(heap), heap |-> Tail(heap)]

\* heapq.heappop(heap): the item returned and the heap after the call
HeapPop(heap, prio) ==
    LET lastelt == heap[Len(heap)]
        rest == SubSeq(heap, 1, Len(heap) - 1)
    IN  IF rest # <<>>
        THEN [item |-> rest[1], heap |-> Siftup([rest EXCEPT ![1] = lastelt], prio, 0)]
        ELSE [item |-> lastelt, heap |-> <<>>]

\* the task_ids of the example usage: the i-th task added is TaskNames[i]
TaskNames == <<"T1", "T2", "T3", "T4", "T5", "T6", "T7">>

\* the strategies of the docstring; "adaptive" takes the branch of "priority"
Strategies == {"priority", "fifo"}

\* the capacities of the agents: none, and the example's capacity=3
Capacities == {0, 3}

\* the priorities of the tasks: two levels, so that ties and inversions occur
PriorityLevels == {1, 2}

\* Task(task_id, description, priority, complexity, dependencies): status
\* starts as "pending"; description and complexity are only printed and
\* logged
NewTask(task_id, priority, dependencies) ==
    [task_id |-> task_id, priority |-> priority,
     dependencies |-> dependencies, status |-> "pending"]

\* Agent(agent_id, capacity); assigned_tasks is empty between the calls
NewAgent(capacity) ==
    [capacity |-> capacity, current_load |-> 0, completed_tasks |-> <<>>]

\* the add_agent calls of a run: their capacities
AgentScripts == UNION {[1..n -> Capacities] : n \in 0..MaxAgents}

\* the dependencies of the i-th task of a script: none, the task added
\* just before it, or the task added just after it (never added, for the
\* last task of the script)
DependencyChoices(i) ==
    {{}, {TaskNames[i + 1]}} \cup (IF i > 1 THEN {{TaskNames[i - 1]}} ELSE {})

\* the scripts of n add_task calls
RECURSIVE ScriptsOfLength(_)
ScriptsOfLength(n) ==
    IF n = 0 THEN {<<>>}
    ELSE {Append(script, NewTask(TaskNames[n], priority, dependencies)) :
              script \in ScriptsOfLength(n - 1),
              priority \in PriorityLevels,
              dependencies \in DependencyChoices(n)}

\* the add_task calls of a run
TaskScripts == UNION {ScriptsOfLength(n) : n \in 0..MaxTasks}

\* TaskPlanner(strategy) and the calls the run will make
PlannerInit ==
    /\ EngineIdle
    /\ AgentIdle
    /\ ResolverIdle
    /\ OthersIdle
    /\ strategy \in Strategies
    /\ agent_script \in AgentScripts
    /\ task_script \in TaskScripts
    /\ agents = <<>>
    /\ agent_cycle = 0
    /\ tasks = EmptyDict
    /\ task_graph = {}
    /\ task_queue = <<>>
    /\ pending_tasks = <<>>
    /\ ppc = "setup"
    /\ handed = <<>>
    /\ retried = FALSE

\* task_id -> priority, for Task.__lt__
Priorities(ts) == [id \in DOMAIN ts |-> ts[id].priority]

\* TaskPlanner.add_agent: the cycle starts again at the first agent
AddAgent ==
    /\ ppc = "setup"
    /\ agent_script # <<>>
    /\ agents' = Append(agents, NewAgent(Head(agent_script)))
    /\ agent_cycle' = 1
    /\ agent_script' = Tail(agent_script)
    /\ UNCHANGED <<task_script, tasks, task_graph, task_queue, pending_tasks, ppc, handed>>
    /\ UNCHANGED <<strategy, retried, outsidePlanner>>

\* TaskPlanner.add_task: the node is added, then an edge for every
\* dependency that is a node of the graph at this moment, then the task
\* is pushed on the heap
AddTask ==
    /\ ppc = "setup"
    /\ agent_script = <<>>
    /\ task_script # <<>>
    /\ LET task == Head(task_script)
           nodes == DOMAIN tasks \cup {task.task_id}
       IN  /\ tasks' = DictPut(tasks, task.task_id, task)
           /\ task_graph' = task_graph \cup
                   {<<dep, task.task_id>> : dep \in task.dependencies \cap nodes}
           /\ task_queue' = IF strategy = "fifo"
                            THEN Append(task_queue, task.task_id)
                            ELSE HeapPush(task_queue, Priorities(tasks'), task.task_id)
    /\ task_script' = Tail(task_script)
    /\ UNCHANGED <<agent_script, agents, agent_cycle, pending_tasks, ppc, handed>>
    /\ UNCHANGED <<strategy, retried, outsidePlanner>>

\* the call of TaskPlanner.assign_tasks after the last add_task
AssignTasks ==
    /\ ppc = "setup"
    /\ agent_script = <<>>
    /\ task_script = <<>>
    /\ ppc' = "outer"
    /\ UNCHANGED <<agent_script, task_script, agents, agent_cycle, tasks,
                   task_graph, task_queue, pending_tasks, handed>>
    /\ UNCHANGED <<strategy, retried, outsidePlanner>>

\* the outer while of assign_tasks finds both lists empty: the call returns
ReturnFromAssignTasks ==
    /\ ppc = "outer"
    /\ task_queue = <<>>
    /\ pending_tasks = <<>>
    /\ ppc' = "done"
    /\ UNCHANGED <<agent_script, task_script, agents, agent_cycle, tasks,
                   task_graph, task_queue, pending_tasks, handed>>
    /\ UNCHANGED <<strategy, retried, outsidePlanner>>

\* one pass of the outer while: the pending tasks go to the end of the
\* queue (list.extend, no heapify), then the inner while starts
RetryPending ==
    /\ ppc = "outer"
    /\ task_queue # <<>> \/ pending_tasks # <<>>
    /\ task_queue' = task_queue \o pending_tasks
    /\ pending_tasks' = <<>>
    /\ retried' = (retried \/ pending_tasks # <<>>)
    /\ ppc' = "inner"
    /\ UNCHANGED <<agent_script, task_script, agents, agent_cycle, tasks,
                   task_graph, handed>>
    /\ UNCHANGED <<strategy, outsidePlanner>>

\* the inner while finds the queue empty
QueueDrained ==
    /\ ppc = "inner"
    /\ task_queue = <<>>
    /\ ppc' = "outer"
    /\ UNCHANGED <<agent_script, task_script, agents, agent_cycle, tasks,
                   task_graph, task_queue, pending_tasks, handed>>
    /\ UNCHANGED <<strategy, retried, outsidePlanner>>

\* the predecessors of a task in the graph
Predecessors(task_id) == {e[1] : e \in {d \in task_graph : d[2] = task_id}}

\* TaskPlanner.resolve_dependencies
ResolveDependencies(task_id) ==
    \A dependency \in Predecessors(task_id) :
        tasks[dependency].status = "completed"

\* available_agents of _assign_task_to_agent
AvailableAgents == {i \in DOMAIN agents : agents[i].current_load < agents[i].capacity}

\* the inner while pops a task whose dependencies are not resolved
WaitForDependencies ==
    /\ ppc = "inner"
    /\ task_queue # <<>>
    /\ LET popped == HeapPop(task_queue, Priorities(tasks))
       IN  /\ ~ResolveDependencies(popped.item)
           /\ task_queue' = popped.heap
           /\ pending_tasks' = Append(pending_tasks, popped.item)
    /\ UNCHANGED <<agent_script, task_script, agents, agent_cycle, tasks,
                   task_graph, ppc, handed>>
    /\ UNCHANGED <<strategy, retried, outsidePlanner>>

\* the inner while pops a task whose dependencies are resolved, and
\* _assign_task_to_agent finds no agent with load below its capacity
NoAvailableAgents ==
    /\ ppc = "inner"
    /\ task_queue # <<>>
    /\ LET popped == HeapPop(task_queue, Priorities(tasks))
       IN  /\ ResolveDependencies(popped.item)
           /\ AvailableAgents = {}
           /\ task_queue' = popped.heap
           /\ pending_tasks' = Append(pending_tasks, popped.item)
    /\ UNCHANGED <<agent_script, task_script, agents, agent_cycle, tasks,
                   task_graph, ppc, handed>>
    /\ UNCHANGED <<strategy, retried, outsidePlanner>>

\* the inner while pops a task whose dependencies are resolved, and
\* _assign_task_to_agent hands it to next(agent_cycle). Agent.assign_task
\* executes and completes the task when the agent's load is below its
\* capacity and only prints otherwise; in both cases _assign_task_to_agent
\* then sets the status to "in_progress"
AssignTaskToAgent ==
    /\ ppc = "inner"
    /\ task_queue # <<>>
    /\ LET popped == HeapPop(task_queue, Priorities(tasks))
           task == popped.item
           best_agent == agents[agent_cycle]
       IN  /\ ResolveDependencies(task)
           /\ AvailableAgents # {}
           /\ task_queue' = popped.heap
           /\ agent_cycle' = (agent_cycle % Len(agents)) + 1
           /\ agents' = IF best_agent.current_load < best_agent.capacity
                        THEN [agents EXCEPT ![agent_cycle].completed_tasks = Append(@, task)]
                        ELSE agents
           /\ tasks' = [tasks EXCEPT ![task].status = "in_progress"]
           /\ handed' = Append(handed, task)
    /\ UNCHANGED <<agent_script, task_script, task_graph, pending_tasks, ppc>>
    /\ UNCHANGED <<strategy, retried, outsidePlanner>>

PlannerNext ==
    \/ AddAgent
    \/ AddTask
    \/ AssignTasks
    \/ ReturnFromAssignTasks
    \/ RetryPending
    \/ QueueDrained
    \/ WaitForDependencies
    \/ NoAvailableAgents
    \/ AssignTaskToAgent

PlannerSpec == PlannerInit /\ [][PlannerNext]_vars

\* assign_tasks is one sequential loop: a step that can be taken is taken
FairPlannerSpec == PlannerInit /\ [][PlannerNext]_vars /\ WF_vars(PlannerNext)

----------------------------------------------------------------------------
(* memory.MemoryManager: threads that each make one call of the manager.   *)
(* The lock is a threading.Lock: a thread that asks for it while any       *)
(* thread holds it, itself included, waits until it is released.           *)

Threads == {"t1", "t2"}

MemoryKeys == {"k1", "k2"}

\* a call of a method of the manager with its arguments
MemCall(method, key, persistent, keys_to_keep) ==
    [method |-> method, key |-> key, value |-> "1",
     persistent |-> persistent, keys_to_keep |-> keys_to_keep]

\* the calls: store_shared(key, value, persistent),
\* selective_memory_retention(keys_to_keep), save_memory()
MemCalls ==
    {MemCall("store_shared", key, persistent, {}) :
         key \in MemoryKeys, persistent \in BOOLEAN}
    \cup {MemCall("selective_memory_retention", "", TRUE, keys) :
              keys \in SUBSET MemoryKeys}
    \cup {MemCall("save_memory", "", TRUE, {})}

\* what load_memory finds on disk: no file, or a file with one key
StoredMemories == {EmptyDict, [k1 |-> "0"]}

\* MemoryManager(): shared_memory is what load_memory returns
MemoryInit ==
    /\ EngineIdle
    /\ AgentIdle
    /\ ResolverIdle
    /\ PlannerIdle
    /\ ExecutorIdle
    /\ StateIdle
    /\ BroadcastIdle
    /\ mem_calls \in [Threads -> MemCalls]
    /\ mem_pc = [th \in Threads |-> "called"]
    /\ lock = ""
    /\ memory_file \in StoredMemories
    /\ shared_memory = memory_file

\* store_shared: with self.lock is entered
EnterStoreShared(th) ==
    /\ mem_pc[th] = "called"
    /\ mem_calls[th].method = "store_shared"
    /\ lock = ""
    /\ lock' = th
    /\ mem_pc' = [mem_pc EXCEPT ![th] = "store_body"]
    /\ UNCHANGED <<mem_calls, shared_memory, memory_file>>
    /\ UNCHANGED outsideMemory

\* store_shared: the assignment, then save_memory is called if persistent
StoreSharedBody(th) ==
    /\ mem_pc[th] = "store_body"
    /\ shared_memory' = DictPut(shared_memory, mem_calls[th].key, mem_calls[th].value)
    /\ mem_pc' = [mem_pc EXCEPT ![th] =
                      IF mem_calls[th].persistent THEN "save_memory" ELSE "exit"]
    /\ UNCHANGED <<mem_calls, lock, memory_file>>
    /\ UNCHANGED outsideMemory

\* selective_memory_retention: with self.lock is entered
EnterRetention(th) ==
    /\ mem_pc[th] = "called"
    /\ mem_calls[th].method = "selective_memory_retention"
    /\ lock = ""
    /\ lock' = th
    /\ mem_pc' = [mem_pc EXCEPT ![th] = "retention_body"]
    /\ UNCHANGED <<mem_calls, shared_memory, memory_file>>
    /\ UNCHANGED outsideMemory

\* selective_memory_retention: the keys to keep are kept, then save_memory
\* is called
RetentionBody(th) ==
    /\ mem_pc[th] = "retention_body"
    /\ shared_memory' = [key \in mem_calls[th].keys_to_keep \cap DOMAIN shared_memory |->
                             shared_memory[key]]
    /\ mem_pc' = [mem_pc EXCEPT ![th] = "save_memory"]
    /\ UNCHANGED <<mem_calls, lock, memory_file>>
    /\ UNCHANGED outsideMemory

\* a thread calls save_memory itself
CallSaveMemory(th) ==
    /\ mem_pc[th] = "called"
    /\ mem_calls[th].method = "save_memory"
    /\ mem_pc' = [mem_pc EXCEPT ![th] = "save_memory"]
    /\ UNCHANGED <<mem_calls, lock, shared_memory, memory_file>>
    /\ UNCHANGED outsideMemory

\* save_memory: with self.lock is entered, when the lock is free
EnterSaveMemory(th) ==
    /\ mem_pc[th] = "save_memory"
    /\ lock = ""
    /\ lock' = th
    /\ mem_pc' = [mem_pc EXCEPT ![th] = "save_body"]
    /\ UNCHANGED <<mem_calls, shared_memory, memory_file>>
    /\ UNCHANGED outsideMemory

\* save_memory: json.dump(self.shared_memory, f)
SaveMemoryBody(th) ==
    /\ mem_pc[th] = "save_body"
    /\ memory_file' = shared_memory
    /\ mem_pc' = [mem_pc EXCEPT ![th] = "save_exit"]
    /\ UNCHANGED <<mem_calls, lock, shared_memory>>
    /\ UNCHANGED outsideMemory

\* save_memory: the with block is left, the lock released
ExitSaveMemory(th) ==
    /\ mem_pc[th] = "save_exit"
    /\ lock' = ""
    /\ mem_pc' = [mem_pc EXCEPT ![th] =
                      IF mem_calls[th].method = "save_memory" THEN "returned" ELSE "exit"]
    /\ UNCHANGED <<mem_calls, shared_memory, memory_file>>
    /\ UNCHANGED outsideMemory

\* store_shared and selective_memory_retention: the with block is left;
\* releasing a lock that is not locked raises RuntimeError
ExitMethod(th) ==
    /\ mem_pc[th] = "exit"
    /\ lock' = ""
    /\ mem_pc' = [mem_pc EXCEPT ![th] = IF lock = "" THEN "raised" ELSE "returned"]
    /\ UNCHANGED <<mem_calls, shared_memory, memory_file>>
    /\ UNCHANGED outsideMemory

MemoryNext ==
    \E th \in Threads :
        \/ EnterStoreShared(th)
        \/ StoreSharedBody(th)
        \/ EnterRetention(th)
        \/ RetentionBody(th)
        \/ CallSaveMemory(th)
        \/ EnterSaveMemory(th)
        \/ SaveMemoryBody(th)
        \/ ExitSaveMemory(th)
        \/ ExitMethod(th)

MemorySpec == MemoryInit /\ [][MemoryNext]_vars

----------------------------------------------------------------------------
(* distributed.DistributedExecutor: a script of execute_task calls, then   *)
(* retry_failed_tasks. The threads and the pool run _run_task, which only  *)
(* prints and sleeps. A connect to the remote node fails as node_script    *)
(* says; when the script is used up the node is reachable.                 *)

ExecutorModes == {"threading", "hybrid", "distributed"}

JobNames == <<"job1", "job2", "job3">>

\* the execute_task calls of a run: (agent_id, task, task_type)
RECURSIVE SubmitScripts(_)
SubmitScripts(n) ==
    IF n = 0 THEN {<<>>}
    ELSE {Append(script, [agent_id |-> "Agent1", task |-> JobNames[n],
                          task_type |-> task_type]) :
              script \in SubmitScripts(n - 1), task_type \in {"light", "heavy"}}

ExecScripts == UNION {SubmitScripts(n) : n \in 0..MaxSubmits}

NodeScripts == UNION {[1..n -> BOOLEAN] : n \in 0..MaxOutages}

\* the branch execute_task takes
ExecuteBranch(m, task_type) ==
    IF m = "threading" \/ (m = "hybrid" /\ task_type = "light") THEN "thread"
    ELSE IF m = "multiprocessing" \/ (m = "hybrid" /\ task_type = "heavy") THEN "pool"
    ELSE IF m = "distributed" THEN "remote"
    ELSE "ValueError"

\* _send_task_to_remote reaches the except branch: there is a node and the
\* connect fails
SendFails == remote_nodes # <<>> /\ node_script # <<>> /\ Head(node_script)

\* execute_task(agent_id, task, task_type): a thread is started, or the
\* task goes to the pool, or it is sent to the remote node and recorded in
\* failed_tasks when the sending fails
ExecuteTaskEffect(agent_id, task, task_type) ==
    LET branch == ExecuteBranch(mode, task_type)
    IN  /\ threads' = IF branch = "thread" THEN Append(threads, task) ELSE threads
        /\ failed_tasks' = IF branch = "remote" /\ SendFails
                           THEN Append(failed_tasks, <<agent_id, task>>)
                           ELSE failed_tasks
        /\ node_script' = IF branch = "remote" /\ remote_nodes # <<>> /\ node_script # <<>>
                          THEN Tail(node_script) ELSE node_script

\* DistributedExecutor(mode, remote_nodes) and the calls the run will make
ExecutorInit ==
    /\ EngineIdle
    /\ AgentIdle
    /\ ResolverIdle
    /\ PlannerIdle
    /\ MemoryIdle
    /\ StateIdle
    /\ BroadcastIdle
    /\ mode \in ExecutorModes
    /\ remote_nodes \in {<<>>, <<"node">>}
    /\ exec_script \in ExecScripts
    /\ node_script \in NodeScripts
    /\ threads = <<>>
    /\ failed_tasks = <<>>
    /\ retry_index = 0
    /\ resubmitted = <<>>
    /\ dpc = "setup"

\* a call of execute_task by the user of the executor
ExecuteTask ==
    /\ dpc = "setup"
    /\ exec_script # <<>>
    /\ LET call == Head(exec_script)
       IN  ExecuteTaskEffect(call.agent_id, call.task, call.task_type)
    /\ exec_script' = Tail(exec_script)
    /\ UNCHANGED <<mode, remote_nodes, retry_index, resubmitted, dpc>>
    /\ UNCHANGED outsideExecutor

\* the call of retry_failed_tasks: the for loop starts an iterator over
\* self.failed_tasks
CallRetryFailedTasks ==
    /\ dpc = "setup"
    /\ exec_script = <<>>
    /\ dpc' = "retry"
    /\ retry_index' = 1
    /\ UNCHANGED <<mode, remote_nodes, exec_script, node_script, threads,
                   failed_tasks, resubmitted>>
    /\ UNCHANGED outsideExecutor

\* one pass of the for loop: the iterator gives the item at its position
\* in the list as the list is now, and execute_task(agent_id, task) is
\* called with the default task_type
RetryTask ==
    /\ dpc = "retry"
    /\ retry_index <= Len(failed_tasks)
    /\ LET item == failed_tasks[retry_index]
       IN  /\ resubmitted' = Append(resubmitted, item)
           /\ ExecuteTaskEffect(item[1], item[2], "light")
    /\ retry_index' = retry_index + 1
    /\ UNCHANGED <<mode, remote_nodes, exec_script, dpc>>
    /\ UNCHANGED outsideExecutor

\* the iterator is past the end of the list: failed_tasks.clear(), return
ReturnFromRetry ==
    /\ dpc = "retry"
    /\ retry_index > Len(failed_tasks)
    /\ failed_tasks' = <<>>
    /\ dpc' = "returned"
    /\ UNCHANGED <<mode, remote_nodes, exec_script, node_script, threads,
                   retry_index, resubmitted>>
    /\ UNCHANGED outsideExecutor

ExecutorNext ==
    \/ ExecuteTask
    \/ CallRetryFailedTasks
    \/ RetryTask
    \/ ReturnFromRetry

ExecutorSpec == ExecutorInit /\ [][ExecutorNext]_vars

----------------------------------------------------------------------------
(* state_manager.StateManager. A state is a dict object, and two names can *)
(* hold the same object: objects[n] is the content of object n, a branch   *)
(* and a history record hold an object's number. A value of a dict is a    *)
(* string, [str |-> s], or another dict object, [ref |-> n].               *)

Str(string) == [str |-> string]

Ref(n) == [ref |-> n]

IsRef(value) == "ref" \in DOMAIN value

\* what a reader of object n sees: the nested dicts in place of their numbers
View(objs, n) ==
    [key \in DOMAIN objs[n] |->
        IF IsRef(objs[n][key]) THEN [items |-> objs[objs[n][key].ref]]
        ELSE objs[n][key]]

\* json.loads(json.dumps(d)) of object n: a new object, with a new object
\* for every nested dict; gives the objects and the number of the copy
RECURSIVE CopyItems(_, _, _, _)
CopyItems(objs, content, keys, copy) ==
    IF keys = {} THEN [objects |-> Append(objs, copy), id |-> Len(objs) + 1]
    ELSE LET key == CHOOSE k \in keys : TRUE
             value == content[key]
         IN  IF IsRef(value)
             THEN CopyItems(Append(objs, objs[value.ref]), content, keys \ {key},
                            DictPut(copy, key, Ref(Len(objs) + 1)))
             ELSE CopyItems(objs, content, keys \ {key}, DictPut(copy, key, value))

DeepCopy(objs, n) == CopyItems(objs, objs[n], DOMAIN objs[n], EmptyDict)

\* the for loop of update_state over new_state.items(), on the branch's
\* object target: a dict value for a key the branch has is merged into the
\* branch's value with .update (AttributeError when that value is a
\* string), any other value is assigned as it is, a dict by reference
RECURSIVE MergeItems(_, _, _, _)
MergeItems(objs, target, new_state, keys) ==
    IF keys = {} THEN [objects |-> objs, raised |-> FALSE]
    ELSE LET key == CHOOSE k \in keys : TRUE
             value == new_state[key]
             old == objs[target][key]
         IN  IF key \in DOMAIN objs[target] /\ IsRef(value)
             THEN IF IsRef(old)
                  THEN MergeItems([objs EXCEPT ![old.ref] = objs[value.ref] @@ @],
                                  target, new_state, keys \ {key})
                  ELSE [objects |-> objs, raised |-> TRUE]
             ELSE MergeItems([objs EXCEPT ![target] = DictPut(@, key, value)],
                             target, new_state, keys \ {key})

\* update_state(new_state, branch) on the objects objs and the branches brs,
\* new_state given by its content: the branch is created if missing, the
\* items are merged, a deep copy of the branch's state is appended to the
\* history
UpdateStateEffect(objs, brs, new_state, branch) ==
    LET objs1 == IF branch \in DOMAIN brs THEN objs ELSE Append(objs, EmptyDict)
        brs1 == IF branch \in DOMAIN brs THEN brs ELSE DictPut(brs, branch, Len(objs1))
        merged == MergeItems(objs1, brs1[branch], new_state, DOMAIN new_state)
        copied == DeepCopy(merged.objects, brs1[branch])
    IN  IF merged.raised
        THEN [objects |-> merged.objects, branches |-> brs1,
              state_history |-> state_history, raised |-> TRUE]
        ELSE [objects |-> copied.objects, branches |-> brs1,
              state_history |-> Append(state_history,
                                       [branch |-> branch, state |-> copied.id]),
              raised |-> FALSE]

BranchNames == {"main", "dev"}

\* the new_state arguments of update_state: dict literals with the key
\* "k", its value a string or a dict {"a": string}
NewStates ==
    {[k |-> Str(string)] : string \in {"1", "2"}}
    \cup {[k |-> [items |-> [a |-> Str(string)]]] : string \in {"1", "2"}}

\* the literal new_state as objects: its nested dict becomes a new object
Allocate(objs, literal) ==
    IF "items" \in DOMAIN literal.k
    THEN [objects |-> Append(objs, literal.k.items),
          new_state |-> [k |-> Ref(Len(objs) + 1)]]
    ELSE [objects |-> objs, new_state |-> literal]

\* a record of a call
Op(kind, branch, other, steps, applied, raised) ==
    [kind |-> kind, branch |-> branch, other |-> other, steps |-> steps,
     applied |-> applied, raised |-> raised]

\* StateManager(): current_state = {}, branches = {'main': current_state}
StateInit ==
    /\ EngineIdle
    /\ AgentIdle
    /\ ResolverIdle
    /\ PlannerIdle
    /\ MemoryIdle
    /\ ExecutorIdle
    /\ BroadcastIdle
    /\ objects = <<EmptyDict>>
    /\ branches = [main |-> 1]
    /\ state_history = <<>>
    /\ last_op = [kind |-> ""]
    /\ ops_done = 0

\* update_state(new_state, branch) called with a dict literal
UpdateState(literal, branch) ==
    /\ ops_done < MaxOps
    /\ LET given == Allocate(objects, literal)
           after == UpdateStateEffect(given.objects, branches, given.new_state, branch)
       IN  /\ objects' = after.objects
           /\ branches' = after.branches
           /\ state_history' = after.state_history
           /\ last_op' = Op("update_state", branch, "", 0, TRUE, after.raised)
    /\ ops_done' = ops_done + 1
    /\ UNCHANGED outsideState

\* create_branch(source_branch, new_branch)
CreateBranch(source_branch, new_branch) ==
    /\ ops_done < MaxOps
    /\ IF source_branch \in DOMAIN branches
       THEN LET copied == DeepCopy(objects, branches[source_branch])
            IN  /\ objects' = copied.objects
                /\ branches' = DictPut(branches, new_branch, copied.id)
       ELSE UNCHANGED <<objects, branches>>
    /\ last_op' = Op("create_branch", new_branch, source_branch, 0,
                     source_branch \in DOMAIN branches, FALSE)
    /\ ops_done' = ops_done + 1
    /\ UNCHANGED state_history
    /\ UNCHANGED outsideState

\* merge_branch(source_branch, target_branch): update_state is called with
\* the source branch's own state object
MergeBranch(source_branch, target_branch) ==
    /\ ops_done < MaxOps
    /\ IF source_branch \in DOMAIN branches /\ target_branch \in DOMAIN branches
       THEN LET after == UpdateStateEffect(objects, branches,
                                           objects[branches[source_branch]],
                                           target_branch)
            IN  /\ objects' = after.objects
                /\ branches' = after.branches
                /\ state_history' = after.state_history
                /\ last_op' = Op("merge_branch", target_branch, source_branch, 0,
                                 TRUE, after.raised)
       ELSE /\ UNCHANGED <<objects, branches, state_history>>
            /\ last_op' = Op("merge_branch", target_branch, source_branch, 0,
                             FALSE, FALSE)
    /\ ops_done' = ops_done + 1
    /\ UNCHANGED outsideState

\* state_history[-steps], for steps >= 1
HistoryIndex(steps) == Len(state_history) - steps + 1

\* rollback_state(steps, branch): the branch gets the state object of the
\* history record itself
RollbackState(steps, branch) ==
    /\ ops_done < MaxOps
    /\ IF branch \in DOMAIN branches /\ steps <= Len(state_history)
       THEN branches' = [branches EXCEPT ![branch] =
                            state_history[HistoryIndex(steps)].state]
       ELSE UNCHANGED branches
    /\ last_op' = Op("rollback_state", branch, "", steps,
                     branch \in DOMAIN branches /\ steps <= Len(state_history), FALSE)
    /\ ops_done' = ops_done + 1
    /\ UNCHANGED <<objects, state_history>>
    /\ UNCHANGED outsideState

\* get_state(branch)
GetState(objs, brs, branch) ==
    IF branch \in DOMAIN brs THEN View(objs, brs[branch]) ELSE EmptyDict

StateNext ==
    \/ \E literal \in NewStates : \E branch \in BranchNames : UpdateState(literal, branch)
    \/ \E source \in BranchNames : \E new \in BranchNames : CreateBranch(source, new)
    \/ \E source \in BranchNames : \E target \in BranchNames : MergeBranch(source, target)
    \/ \E steps \in 1..MaxSteps : \E branch \in BranchNames : RollbackState(steps, branch)

StateSpec == StateInit /\ [][StateNext]_vars

----------------------------------------------------------------------------
(* Team.broadcast(sender_id, message). broadcast is a plain function and   *)
(* send_message is a coroutine function: the call self.send_message(...)   *)
(* makes a coroutine object and runs none of its body; broadcast neither   *)
(* awaits the object nor hands it to the event loop, and drops it.         *)

AgentIds == {"a1", "a2", "a3"}

\* the teams: the agent ids in the order of the add_agent calls
Teams ==
    {team_ids \in UNION {[1..n -> AgentIds] : n \in 0..Cardinality(AgentIds)} :
        \A i \in DOMAIN team_ids : \A j \in DOMAIN team_ids :
            team_ids[i] = team_ids[j] => i = j}

\* the senders: an agent id, of the team or not
Senders == AgentIds \cup {"outsider"}

Messages == {[type |-> "info"], [type |-> "help_request"]}

\* the coroutine object of a call send_message(sender_id, recipient_id,
\* content) that was not awaited
Coroutine(recipient_id) ==
    [recipient_id |-> recipient_id, state |-> "never awaited"]

\* a call of broadcast on a team
BroadcastInit ==
    /\ EngineIdle
    /\ AgentIdle
    /\ ResolverIdle
    /\ PlannerIdle
    /\ MemoryIdle
    /\ ExecutorIdle
    /\ StateIdle
    /\ team_agents \in Teams
    /\ sender_id \in Senders
    /\ message \in Messages
    /\ broadcast_index = 1
    /\ coroutines = <<>>
    /\ received = [agent_id \in Range(team_agents) |-> 0]
    /\ bpc = "called"

\* one pass of the for loop over self.agents
BroadcastVisit ==
    /\ bpc = "called"
    /\ broadcast_index <= Len(team_agents)
    /\ LET agent_id == team_agents[broadcast_index]
       IN  coroutines' = IF agent_id # sender_id
                         THEN Append(coroutines, Coroutine(agent_id))
                         ELSE coroutines
    /\ broadcast_index' = broadcast_index + 1
    /\ UNCHANGED <<team_agents, sender_id, message, received, bpc>>
    /\ UNCHANGED outsideBroadcast

\* the for loop is over: broadcast returns
BroadcastReturn ==
    /\ bpc = "called"
    /\ broadcast_index > Len(team_agents)
    /\ bpc' = "returned"
    /\ UNCHANGED <<team_agents, sender_id, message, broadcast_index,
                   coroutines, received>>
    /\ UNCHANGED outsideBroadcast

BroadcastNext ==
    \/ BroadcastVisit
    \/ BroadcastReturn

BroadcastSpec == BroadcastInit /\ [][BroadcastNext]_vars

----------------------------------------------------------------------------
(* Vocabulary of the properties                                            *)

RECURSIVE AllSteps(_)
\* every step dict of a definition, the steps of the branches included
AllSteps(steps) ==
    IF steps = <<>> THEN {}
    ELSE LET step == Head(steps)
         IN  {step} \cup AllSteps(step.then) \cup AllSteps(ElseBranch(step))
                    \cup AllSteps(Tail(steps))

WorkflowSteps == AllSteps(workflow.steps)

\* no two steps of the definition share an id
UniqueIds ==
    \A a \in WorkflowSteps : \A b \in WorkflowSteps : a.id = b.id => a = b

RECURSIVE Ancestors(_, _)
\* the ids the ids of frontier depend on, directly or not
Ancestors(frontier, seen) ==
    LET more == UNION {DependsOn(st) : st \in {x \in WorkflowSteps : x.id \in frontier}}
    IN  IF more \subseteq seen THEN seen
        ELSE Ancestors(more \ seen, seen \cup more)

Acyclic == \A st \in WorkflowSteps : st.id \notin Ancestors({st.id}, {})

\* a definition none of whose steps can fail: unique ids, no cycle, every
\* depends_on id names a step, every concrete step calls a capability that
\* returns a mapping at once on a registered agent
NoStepCanFail ==
    /\ UniqueIds
    /\ Acyclic
    /\ \A st \in WorkflowSteps :
        /\ DependsOn(st) \subseteq {x.id : x \in WorkflowSteps}
        /\ ~HasWhen(st) => Invokes(st) /\ st.task = "execute"

Terminated == pc \in {"returned", "raised"}

\* the ids of the steps that are awaiting their capability
RunningIds == {t.id : t \in running}

\* the run was started with the default deadline, which no sequence of
\* capability calls of the model reaches
DefaultDeadline == timeout = <<DefaultWorkflowTimeout>>

IsTimeoutError(e) == e.error = "Step timed out after"

RECURSIVE SelectedSteps(_)
\* the steps of steps, and the steps of the branch that an evaluated
\* conditional among them selected, and so on
SelectedSteps(steps) ==
    IF steps = <<>> THEN {}
    ELSE LET step == Head(steps)
         IN  {step}
             \cup (IF HasWhen(step) /\ step.id \in DOMAIN evals
                   THEN SelectedSteps(IF evals[step.id][1]
                                      THEN step.then ELSE ElseBranch(step))
                   ELSE {})
             \cup SelectedSteps(Tail(steps))

\* the step s is handed to the executor in this step of the run
NewlyDispatched(s) ==
    /\ s.id \in DOMAIN dispatched'
    /\ Len(dispatched'[s.id]) =
          (IF s.id \in DOMAIN dispatched THEN Len(dispatched[s.id]) ELSE 0) + 1
    /\ dispatched'[s.id][Len(dispatched'[s.id])] = s

RECURSIVE RoundInOrder(_, _)
\* the maps after the tasks ts of one round have resumed one by one, a task
\* that is due earlier first and tasks due together in the order of ts
RoundInOrder(ts, out) ==
    IF ts = <<>> THEN out
    ELSE LET i == CHOOSE i \in DOMAIN ts : \A j \in DOMAIN ts :
                      \/ FinishTime(ts[i]) < FinishTime(ts[j])
                      \/ FinishTime(ts[i]) = FinishTime(ts[j]) /\ i <= j
             t == ts[i]
         IN  RoundInOrder(
                 [k \in 1..(Len(ts) - 1) |-> IF k < i THEN ts[k] ELSE ts[k + 1]],
                 FinishedStep(t, MustTimeOut(t), out.completed, out.failed,
                              out.context))

RECURSIVE RunInOrder(_, _, _, _)
\* how the round loop ends from pending p and the maps done, bad, ctx when
\* the tasks of every round resume in the order of RoundInOrder and no
\* deadline fires: the result it returns, or that it raises, or that it
\* waits for ever
RunInOrder(p, done, bad, ctx) ==
    IF p = <<>>
    THEN [status |-> FinalStatus(done, bad), completed |-> done, failed |-> bad]
    ELSE LET expanded == ExpandConditionals(Conditionals(p), p, done, ctx)
             ready == Executable(expanded, done)
             started == [i \in DOMAIN SelectSeq(ready, Invokes) |->
                            Task(SelectSeq(ready, Invokes)[i], 0)]
             out == RoundInOrder(started, [completed |-> done, context |-> ctx,
                                         failed |-> StartSteps(ready, bad)])
         IN  IF ready = <<>>
             THEN [status |-> IF NoneDepends(expanded) THEN "raises" ELSE "waits",
                   completed |-> EmptyDict, failed |-> EmptyDict]
             ELSE IF \E i \in DOMAIN ready : RaisesKeyError(ready[i])
             THEN [status |-> "raises", completed |-> EmptyDict,
                   failed |-> EmptyDict]
             ELSE RunInOrder(
                      SelectSeq(expanded, LAMBDA x : x.id \notin Keys(ready)),
                      out.completed, out.failed, out.context)

\* how the run of the workflow ends when the tasks resume in that order
InOrderResults ==
    RunInOrder(OrderedPutAll(<<>>, workflow.steps), EmptyDict, EmptyDict, EmptyDict)

\* d1 and d2 have the same keys other than id, with the same values
SameButFor(d1, d2, id) ==
    /\ DOMAIN d1 \ {id} = DOMAIN d2 \ {id}
    /\ \A k \in DOMAIN d1 \ {id} : d1[k] = d2[k]

\* the ids under which the run has recorded an outcome
OutcomeIds ==
    DOMAIN completed \cup DOMAIN failed
        \cup DOMAIN results.completed \cup DOMAIN results.failed

----------------------------------------------------------------------------
(* Properties                                                              *)

\* C1: when execute_workflow returns after the round loop ended normally
\* (not by the deadline), status is completed iff failed is empty, partial
\* iff completed and failed are both non-empty, failed iff completed is
\* empty and failed is not.
C1_StatusFromMaps ==
    (pc = "returned" /\ results.status # "timeout") =>
        /\ results.status \in {"completed", "partial", "failed"}
        /\ results.status = "completed" <=> DOMAIN results.failed = {}
        /\ results.status = "partial" <=>
              (DOMAIN results.completed # {} /\ DOMAIN results.failed # {})
        /\ results.status = "failed" <=>
              (DOMAIN results.completed = {} /\ DOMAIN results.failed # {})

\* C1 witness: a run returned partial with a success and a failure
C1_Witness ==
    /\ pc = "returned"
    /\ results.status = "partial"
    /\ DOMAIN results.completed # {}
    /\ DOMAIN results.failed # {}

\* C2: a step id is in completed only if every id of the depends_on of the
\* step executed under that id is in completed, in every state of the run
\* and in the returned result.
C2_CompletedHasDeps ==
    /\ \A id \in DOMAIN completed : \A i \in DOMAIN dispatched[id] :
          DependsOn(dispatched[id][i]) \subseteq DOMAIN completed
    /\ \A id \in DOMAIN results.completed : \A i \in DOMAIN dispatched[id] :
          DependsOn(dispatched[id][i]) \subseteq DOMAIN results.completed

\* C2 witness: the result holds a completed step that has dependencies
C2_Witness ==
    /\ pc = "returned"
    /\ \E id \in DOMAIN results.completed :
          DependsOn(dispatched[id][1]) # {}

\* C3: while the capability of a step S is being invoked, every id D of
\* S.depends_on has terminated: it is in completed and no execution of a
\* step with id D is in flight.
C3_StartsAfterDeps ==
    \A t \in running : \A d \in DependsOn(t.step) :
        d \in DOMAIN completed /\ d \notin RunningIds

\* C4: a run of a definition in which no step can fail, started with the
\* default deadline or none, ends by returning status completed with an
\* empty failed map and every top-level concrete step in completed.
C4_NoFailureCompletes ==
    (NoStepCanFail /\ Terminated /\ timeout \in {<<>>, <<DefaultWorkflowTimeout>>}) =>
        /\ pc = "returned"
        /\ results.status = "completed"
        /\ DOMAIN results.failed = {}
        /\ \A i \in DOMAIN workflow.steps :
              ~HasWhen(workflow.steps[i]) =>
                  workflow.steps[i].id \in DOMAIN results.completed

\* C5: a run with at least one step that failed and one that succeeded
\* returns status partial with the maps of the run.
C5_PartialOnMixedOutcome ==
    (/\ pc = "returned"
     /\ DefaultDeadline
     /\ DOMAIN completed \ DOMAIN failed # {}
     /\ DOMAIN failed \ DOMAIN completed # {}) =>
        /\ results.status = "partial"
        /\ results.completed = completed
        /\ results.failed = failed

\* C6: after a step failed the round loop still ends with pending empty
\* and not by the deadline: the steps that depend on the failed step have
\* been dropped from pending.
C6_FailureDropsDependents ==
    (pc = "returned" /\ DefaultDeadline /\ DOMAIN failed # {}) =>
        /\ pending = <<>>
        /\ results.status # "timeout"

\* C7: when execute_workflow returns while the round loop is unfinished
\* (steps pending or in flight, or the coroutine not started), the result
\* is status timeout with completed and failed empty, and nothing is raised.
C7_TimeoutDiscardsProgress ==
    [][(/\ pc # "returned"
        /\ pc' = "returned"
        /\ (pending # <<>> \/ running # {} \/ pc = "called"))
       => /\ results'.status = "timeout"
          /\ DOMAIN results'.completed = {}
          /\ DOMAIN results'.failed = {}
          /\ exc' = ""]_vars

\* C7 witness: the deadline ended a run that had completed and failed steps
C7_Witness ==
    /\ pc = "returned"
    /\ results.status = "timeout"
    /\ DOMAIN completed # {}
    /\ DOMAIN failed # {}
    /\ DOMAIN results.completed = {}
    /\ DOMAIN results.failed = {}

\* C8: a step whose capability was invoked and whose task has ended is in
\* exactly one of completed and failed.
C8_ExactlyOneOutcome ==
    (pc = "gather" \/ results.status \in {"completed", "partial", "failed"}) =>
        \A id \in DOMAIN calls \ RunningIds :
            (id \in DOMAIN completed) # (id \in DOMAIN failed)

\* C9: a step recorded in failed because its capability failed has had its
\* capability invoked retries + 1 times.
C9_RetriesExhausted ==
    \A id \in (DOMAIN failed \cap DOMAIN calls) \ (DOMAIN completed \cup RunningIds) :
        calls[id] = dispatched[id][1].retries + 1

\* C10: a step whose capability does not return within the step's timeout
\* is recorded in failed with the error "Step timed out after <timeout>s"
\* when the timeout has passed, and nothing else changes: the other tasks
\* of the round keep running and a task whose capability returns within
\* its timeout is recorded in completed.  A run that returns after such a
\* failure without the deadline having fired has status partial or failed
\* and reports the timed-out step in failed.
C10_StepTimeoutIsolated ==
    [][/\ \A t \in running :
            (pc = "gather" /\ pc' = "gather" /\ t \notin running') =>
                /\ MustTimeOut(t) =>
                      /\ DOMAIN failed' = DOMAIN failed \cup {t.id}
                      /\ failed'[t.id] =
                            [error |-> "Step timed out after",
                             arg |-> ToString(StepTimeout(t.step))]
                      /\ \A k \in DOMAIN failed \ {t.id} : failed'[k] = failed[k]
                      /\ now = t.started + StepTimeout(t.step)
                      /\ completed' = completed
                      /\ context' = context
                      /\ pending' = pending
                      /\ running' = running \ {t}
                /\ (~MayTimeOut(t) /\ ~TaskCall(t).raises) =>
                      t.id \in DOMAIN completed'
       /\ (/\ pc' = "returned"
           /\ results'.status # "timeout"
           /\ \E id \in DOMAIN failed' : IsTimeoutError(failed'[id]))
          => /\ results'.status \in {"partial", "failed"}
             /\ \A id \in DOMAIN failed' :
                   IsTimeoutError(failed'[id]) =>
                       /\ id \in DOMAIN results'.failed
                       /\ results'.failed[id] = failed'[id]]_vars

\* C10 witness: of two steps of the first round, the one without a timeout
\* key timed out after the default timeout and the other is in completed;
\* the run returned partial
C10_Witness ==
    /\ pc = "returned"
    /\ results.status = "partial"
    /\ \E a \in DOMAIN results.failed : \E b \in DOMAIN results.completed :
          /\ IsTimeoutError(results.failed[a])
          /\ results.failed[a].arg = ToString(DefaultStepTimeout)
          /\ ~Has(dispatched[a][1].timeout)
          /\ DependsOn(dispatched[a][1]) = {}
          /\ DependsOn(dispatched[b][1]) = {}
          /\ b \notin DOMAIN results.failed

\* C11: when a round hands a step whose agent_id is not in the registry to
\* the executor, the step is recorded in failed with the error "Agent
\* <agent_id> not found", no capability call is started or counted for it,
\* it leaves pending for good (it is handed over once, whatever its retries
\* value), and the other steps of the round are started as usual; a run that
\* returns without the deadline having fired reports the error in failed.
C11_MissingAgentFails ==
    [][/\ dispatched' # dispatched =>
            /\ \A s \in Range(Ready) :
                  AgentMissing(s) =>
                      /\ s.id \in DOMAIN failed'
                      /\ failed'[s.id] =
                            [error |-> "Agent not found", arg |-> Get(s.agent_id)]
                      /\ s.id \notin RunningIds'
                      /\ s.id \in DOMAIN calls => calls'[s.id] = calls[s.id]
                      /\ s.id \notin DOMAIN calls => s.id \notin DOMAIN calls'
                      /\ s.id \notin Keys(pending')
                      /\ completed' = completed
            /\ \A s \in Range(Ready) :
                  (Has(s.agent_id) /\ Get(s.agent_id) \in Agents) =>
                      /\ [id |-> s.id, step |-> s, started |-> now] \in running'
                      /\ calls'[s.id] = (IF s.id \in DOMAIN calls THEN calls[s.id] ELSE 0) + 1
            /\ (\A s \in Range(Ready) : Has(s.agent_id)) => pc' = "gather"
       /\ UniqueIds =>
            \A id \in DOMAIN failed' :
                failed'[id].error = "Agent not found" =>
                    /\ Len(dispatched'[id]) = 1
                    /\ id \notin DOMAIN calls'
                    /\ id \notin DOMAIN completed'
                    /\ (pc' = "returned" /\ results'.status # "timeout") =>
                          /\ id \in DOMAIN results'.failed
                          /\ results'.failed[id] = failed'[id]]_vars

\* C11 witness: a step with retries = MaxRetries and an unregistered agent
\* is in failed of the returned result without a capability call, and
\* another step of the run is in completed
C11_Witness ==
    /\ pc = "returned"
    /\ results.status = "partial"
    /\ \E a \in DOMAIN results.failed : \E b \in DOMAIN results.completed :
          /\ results.failed[a].error = "Agent not found"
          /\ dispatched[a][1].retries = MaxRetries
          /\ a \notin DOMAIN calls
          /\ b # a
          /\ b \in DOMAIN calls

\* C12: every step in pending and every step handed to the executor is a
\* top-level step or a step of the branch that an evaluated conditional
\* selected (then when its when was true, else when it was false); no
\* conditional is handed to the executor; every id with an outcome, in the
\* maps of the run and in the returned result, is the id of a step that
\* was handed to the executor, so neither a step of a branch that was not
\* selected nor a conditional step has an entry in completed or failed.
C12_OnlySelectedBranch ==
    /\ Range(pending) \subseteq SelectedSteps(workflow.steps)
    /\ \A id \in DOMAIN dispatched : \A i \in DOMAIN dispatched[id] :
          /\ dispatched[id][i] \in SelectedSteps(workflow.steps)
          /\ ~HasWhen(dispatched[id][i])
    /\ OutcomeIds \subseteq DOMAIN dispatched
    /\ \A s \in WorkflowSteps :
          (\/ HasWhen(s)
           \/ \A x \in SelectedSteps(workflow.steps) : x.id # s.id)
              => s.id \notin OutcomeIds

\* C12 witness: a conditional with a then step and an else step was
\* evaluated to true; the then step is in completed of the returned result
\* and the else step has no outcome
C12_Witness ==
    /\ pc = "returned"
    /\ \E c \in Range(workflow.steps) :
          /\ HasWhen(c)
          /\ c.id \in DOMAIN evals
          /\ evals[c.id] = <<TRUE>>
          /\ c.then # <<>>
          /\ ElseBranch(c) # <<>>
          /\ \A s \in Range(c.then) : s.id \in DOMAIN results.completed
          /\ \A s \in Range(ElseBranch(c)) :
                /\ s.id \notin OutcomeIds
                /\ s.id \notin DOMAIN dispatched
                /\ s.id \notin Keys(c.then)

\* C13: a run started with the default deadline on a definition whose
\* depends_on relation has a cycle (a step that depends on itself, or two
\* steps that depend on each other) ends by raising the deadlock error; it
\* does not return a timeout result.
C13_CycleRaisesDeadlock ==
    (Terminated /\ DefaultDeadline /\ ~Acyclic) =>
        /\ pc = "raised"
        /\ exc = "RuntimeError: Workflow deadlock"

\* C14: the only exception execute_workflow raises is the deadlock error:
\* every error of one step, a step dict without agent_id included, ends as
\* an entry of failed.
C14_OnlyDeadlockRaises ==
    pc = "raised" => exc = "RuntimeError: Workflow deadlock"

\* C15: two steps of one round that are not flagged parallel are never in
\* flight at the same time.
C15_NonParallelSequential ==
    \A a \in running : \A b \in running :
        (a # b /\ now > a.started /\ now > b.started) =>
            (a.step.parallel \/ b.step.parallel)

\* C16: when a step is handed to its capability, every value of its input
\* of the form {{stepId}} with stepId a key of the context has been replaced
\* by context[stepId] in the parameters of the call.
C16_TemplatesResolved ==
    [][dispatched' # dispatched =>
        \A t \in running' : \A key \in DOMAIN t.step.input :
            \A stepId \in DOMAIN context :
                t.step.input[key] = "{{" \o stepId \o "}}" =>
                    Params(t.step)[key] = context[stepId]]_vars

\* C17: a step whose input holds a template reference to an id that is no
\* key of the context is not recorded in completed.
C17_UnresolvedReferenceFails ==
    \A id \in DOMAIN completed : \A i \in DOMAIN dispatched[id] :
        \A key \in DOMAIN dispatched[id][i].input :
            IsTemplate(dispatched[id][i].input[key]) =>
                VarName(dispatched[id][i].input[key]) \in DOMAIN context

C19_ContextAppendOnly ==
    [][/\ \A k \in DOMAIN context :
            k \in DOMAIN context' /\ context'[k] = context[k]
       /\ \A k \in DOMAIN completed :
            k \in DOMAIN completed' /\ completed'[k] = completed[k]]_vars

\* C20: a run started with the default deadline on a definition in which
\* two top-level steps have the same id invokes no capability and returns
\* no result of the round loop.
C20_DuplicateIdsRejected ==
    (DefaultDeadline /\ \E i \in DOMAIN workflow.steps :
                            \E j \in DOMAIN workflow.steps :
                                i # j /\ workflow.steps[i].id = workflow.steps[j].id) =>
        /\ DOMAIN calls = {}
        /\ results.status \notin {"completed", "partial", "failed"}

\* C21: whatever the order in which the tasks of a round resume, a run that
\* returns without the deadline having fired returns the status, the
\* completed map and the failed map of the run in which the tasks of every
\* round resume in one fixed order; a run that raises does so in that run
\* too.
C21_ResultIndependentOfInterleaving ==
    /\ (pc = "returned" /\ results.status # "timeout") =>
            results = InOrderResults
    /\ pc = "raised" => InOrderResults.status = "raises"

\* C21 witness: a run returned after a round in which a step that failed
\* and a step that completed resumed at the same time
C21_Witness ==
    /\ pc = "returned"
    /\ results.status = "partial"
    /\ \E a \in DOMAIN results.failed : \E b \in DOMAIN results.completed :
          /\ a # b
          /\ a \in DOMAIN calls
          /\ b \in DOMAIN calls
          /\ DependsOn(dispatched[a][1]) = {}
          /\ DependsOn(dispatched[b][1]) = {}
          /\ FinishTime(Task(dispatched[a][1], 0))
                = FinishTime(Task(dispatched[b][1], 0))

\* C23: when the deadlock error has been raised, some step is pending and
\* no pending step is a conditional without dependencies, which the next
\* round would expand.
C23_DeadlockOnlyWhenStuck ==
    exc = "RuntimeError: Workflow deadlock" =>
        /\ pending # <<>>
        /\ \A s \in Range(pending) : ~(HasWhen(s) /\ DependsOn(s) = {})

\* C24: while the coordinator of a run on a definition with pairwise
\* different ids, no dependency cycle and no depends_on id that names no
\* step sleeps before it retries, a dispatched step is still in flight.
C24_WaitsOnlyOnInFlightWork ==
    (/\ pc = "sleep"
     /\ UniqueIds
     /\ Acyclic
     /\ \A st \in WorkflowSteps :
           DependsOn(st) \subseteq {x.id : x \in WorkflowSteps}) =>
        running # {}

\* C25: the coordinator expands conditionals, computes a ready set and
\* dispatches steps only while no task is in flight and every step
\* dispatched before has its id in completed or failed.
C25_RoundsAreBarriers ==
    [][(dispatched' # dispatched \/ evals' # evals \/ pending' # pending) =>
          /\ running = {}
          /\ DOMAIN dispatched \subseteq DOMAIN completed \cup DOMAIN failed]_vars

\* C25 witness: a step is in flight that started later than the step it
\* depends on ended, after a slower step of the earlier round had ended
C25_Witness ==
    /\ pc = "gather"
    /\ \E t \in running : \E a \in DependsOn(t.step) :
          \E b \in DOMAIN dispatched \ (RunningIds \cup {a}) :
              /\ a \in DOMAIN dispatched
              /\ DependsOn(dispatched[a][1]) = {}
              /\ DependsOn(dispatched[b][1]) = {}
              /\ Invokes(dispatched[a][1])
              /\ Invokes(dispatched[b][1])
              /\ FinishTime(Task(dispatched[a][1], 0)) < t.started
              /\ FinishTime(Task(dispatched[b][1], 0)) = t.started

\* C26: a conditional is evaluated only in a round in which every id of
\* its depends_on is in completed and only if it was never evaluated
\* before; it then leaves pending and every step of the selected branch is
\* in pending or handed to the executor.  A conditional whose dependencies
\* are not met stays in pending and is not evaluated.
C26_ExpandedOnce ==
    [][evals' # evals =>
        /\ \A c \in Range(Conditionals(pending)) :
              IF DepsMet(c, completed)
              THEN /\ c.id \notin DOMAIN evals
                   /\ Len(evals'[c.id]) = 1
                   /\ c \notin Range(pending')
                   /\ \A s \in Range(IF evals'[c.id][1] THEN c.then
                                      ELSE ElseBranch(c)) :
                         s \in Range(pending') \/ NewlyDispatched(s)
              ELSE /\ c \in Range(pending')
                   /\ c.id \notin DOMAIN evals'
        /\ \A id \in DOMAIN evals' :
              \/ id \in DOMAIN evals /\ evals'[id] = evals[id]
              \/ \E c \in Range(Conditionals(pending)) :
                    c.id = id /\ DepsMet(c, completed)]_vars

\* C26 witness: a conditional that depends on s1 stayed in pending for the
\* round of s1, was evaluated once and its branch step is in completed of
\* the returned result
C26_Witness ==
    /\ pc = "returned"
    /\ \E c \in Range(workflow.steps) :
          /\ HasWhen(c)
          /\ DependsOn(c) = {"s1"}
          /\ c.id \in DOMAIN evals
          /\ Len(evals[c.id]) = 1
          /\ LET branch == IF evals[c.id][1] THEN c.then ELSE ElseBranch(c)
             IN  /\ branch # <<>>
                 /\ \A s \in Range(branch) : s.id \in DOMAIN results.completed

\* C28: a task that resumes changes completed, failed and context at most
\* under its own step id and leaves pending as it is; the tasks a dispatch
\* starts change failed at most under the ids of the dispatched steps and
\* leave completed and context as they are.
C28_TaskWritesOwnEntries ==
    [][/\ \A t \in running :
            (pc' = "gather" /\ t \notin running') =>
                /\ SameButFor(completed, completed', t.id)
                /\ SameButFor(failed, failed', t.id)
                /\ SameButFor(context, context', t.id)
                /\ pending' = pending
       /\ dispatched' # dispatched =>
            /\ completed' = completed
            /\ context' = context
            /\ \A k \in DOMAIN failed' \ Keys(Ready) :
                  k \in DOMAIN failed /\ failed'[k] = failed[k]
            /\ DOMAIN failed \subseteq DOMAIN failed']_vars

\* C28 witness: of two tasks of the first round one has resumed and is in
\* completed while the other is still in flight
C28_Witness ==
    /\ pc = "gather"
    /\ \E t \in running : \E a \in DOMAIN completed \ RunningIds :
          /\ DependsOn(t.step) = {}
          /\ DependsOn(dispatched[a][1]) = {}
          /\ Len(dispatched[a]) = 1

\* C22: when the capability of an agent with a team has returned its
\* result and execute_task has ended, execute_task has returned (it raised
\* nothing) and the task is not in the team's queue.
C22_StoreFailureDoesNotFailTask ==
    (/\ team = "Team"
     /\ apc \in {"returned", "raised"}
     /\ outcome.capability = "returned") =>
        /\ apc = "returned"
        /\ outcome.error = ""
        /\ agent_task \notin Range(team_task_queue)

\* C27: a call of the template resolver leaves the input map and the
\* context as they are and returns a map with exactly the keys of the
\* input, in which a value {{k}} (blanks around k allowed) is context[k]
\* when k is a key of the context and the literal template string when it
\* is not, and every other value is the value of the input.
C27_ResolverIsPure ==
    [][(rpc = "called" /\ rpc' = "returned") =>
          /\ resolver_input' = resolver_input
          /\ resolver_context' = resolver_context
          /\ DOMAIN resolved' = DOMAIN resolver_input
          /\ \A key \in DOMAIN resolver_input :
                LET value == resolver_input[key]
                    refs == {k \in {"s1", "s2", "zz"} :
                                value \in {"{{" \o k \o "}}", "{{ " \o k \o " }}"}}
                IN  /\ \A k \in refs :
                          resolved'[key] = IF k \in DOMAIN resolver_context
                                           THEN resolver_context[k] ELSE value
                    /\ refs = {} => resolved'[key] = value]_vars

\* C27 witness: the resolver returned a map in which a reference to zz,
\* which is no key of the context, is the literal string and a reference
\* to s1 is the value of s1 in the context
C27_Witness ==
    /\ rpc = "returned"
    /\ "zz" \notin DOMAIN resolver_context
    /\ "s1" \in DOMAIN resolver_context
    /\ \E k1 \in DOMAIN resolver_input : \E k2 \in DOMAIN resolver_input :
          /\ resolver_input[k1] = "{{zz}}"
          /\ resolved[k1] = "{{zz}}"
          /\ resolver_input[k2] = "{{s1}}"
          /\ resolved[k2] = resolver_context["s1"]

\* the number of times the agents executed a task: its entries in their
\* completed_tasks lists
Executions(task_id) ==
    LET counts == [i \in DOMAIN agents |->
                      Cardinality({j \in DOMAIN agents[i].completed_tasks :
                                      agents[i].completed_tasks[j] = task_id})]
        sum[i \in 0..Len(agents)] == IF i = 0 THEN 0 ELSE sum[i - 1] + counts[i]
    IN  sum[Len(agents)]

\* the tasks of a script are added after the tasks they depend on
DependenciesAddedFirst(script) ==
    \A i \in DOMAIN script :
        script[i].dependencies \subseteq {script[j].task_id : j \in 1..(i - 1)}

\* the dependencies of the tasks added are acyclic: every nonempty set of
\* tasks has a member that depends on none of the set
DependenciesAcyclic ==
    \A S \in (SUBSET DOMAIN tasks) \ {{}} :
        \E task_id \in S : tasks[task_id].dependencies \cap S = {}

\* C29: when assign_tasks hands a task to an agent, every task the task
\* lists as a dependency has status 'completed'. The formula states it for
\* the runs it is least to ask of: the dependencies are acyclic and every
\* dependency of the task was added with add_task, before the task or
\* after it.
C29_HandedOnlyAfterDependencies ==
    [][handed' # handed =>
          LET task_id == handed'[Len(handed')]
          IN  (/\ DependenciesAcyclic
               /\ tasks[task_id].dependencies \subseteq DOMAIN tasks) =>
                  \A dep \in tasks[task_id].dependencies :
                      tasks[dep].status = "completed"]_vars

\* C30: with every dependency added before its dependent (so the
\* dependencies are acyclic and all registered) and every agent of capacity
\* >= 1, at least one agent, assign_tasks returns with task_queue and
\* pending_tasks empty and every task executed exactly once.
C30_AssignTasksTerminates ==
    (/\ ppc = "setup"
     /\ DependenciesAddedFirst(task_script)
     /\ agent_script # <<>>
     /\ \A i \in DOMAIN agent_script : agent_script[i] >= 1)
    => <>(/\ ppc = "done"
          /\ task_queue = <<>>
          /\ pending_tasks = <<>>
          /\ \A task_id \in DOMAIN tasks : Executions(task_id) = 1)

\* C31: a task an agent has completed has status 'completed', in every
\* state after _assign_task_to_agent has returned.
C31_CompletedStaysCompleted ==
    \A task_id \in DOMAIN tasks :
        Executions(task_id) >= 1 => tasks[task_id].status = "completed"

\* C32: with strategy 'priority', a task that assign_tasks takes from the
\* queue has a priority greater than or equal to that of every task left
\* in task_queue, in the first pass over the queue and in the passes after
\* the pending tasks were moved back.
C32_HighestPriorityFirst ==
    [][(strategy = "priority" /\ ppc = "inner" /\ Len(task_queue') < Len(task_queue)) =>
          LET taken == CHOOSE task_id \in Range(task_queue) :
                           task_id \notin Range(task_queue')
          IN  \A task_id \in Range(task_queue') :
                  tasks[taken].priority >= tasks[task_id].priority]_vars

\* C32 witness: with strategy 'priority', after pending tasks were moved
\* back into the queue, a task of priority 2 has been taken from the queue
\* (it is the last of pending_tasks) while a task of priority 1 is left in
\* the queue
C32_Witness ==
    /\ strategy = "priority"
    /\ retried
    /\ ppc = "inner"
    /\ pending_tasks # <<>>
    /\ tasks[pending_tasks[Len(pending_tasks)]].priority = 2
    /\ \E task_id \in Range(task_queue) : tasks[task_id].priority = 1

\* C33: with strategy 'fifo' and no task with dependencies, the tasks are
\* handed to the agents in the order of the add_task calls: the i-th task
\* handed is the i-th task added.
C33_FifoOrder ==
    (/\ strategy = "fifo"
     /\ \A task_id \in DOMAIN tasks : tasks[task_id].dependencies = {})
    => \A i \in DOMAIN handed : handed[i] = TaskNames[i]

\* C34: a task that no agent has executed is not lost: it is in task_queue
\* or in pending_tasks.
C34_DeferredTaskNotLost ==
    \A task_id \in DOMAIN tasks :
        Executions(task_id) = 0 =>
            task_id \in Range(task_queue) \cup Range(pending_tasks)

\* C35: no thread waits in save_memory for the lock while it holds the
\* lock itself: a thread in store_shared(key, value, persistent=True) or
\* in selective_memory_retention gets through save_memory and returns.
C35_NoSelfDeadlock ==
    \A th \in DOMAIN mem_pc : ~(mem_pc[th] = "save_memory" /\ lock = th)

\* C36: retry_failed_tasks passes each task of failed_tasks to execute_task
\* once: no task is re-submitted twice in one call, also when a
\* re-submission fails again.
C36_RetriedExactlyOnce ==
    \A i \in DOMAIN resubmitted : \A j \in DOMAIN resubmitted :
        resubmitted[i] = resubmitted[j] => i = j

\* C37: a rollback_state(steps, branch) that changes the branch installs a
\* snapshot that the history recorded for this same branch.
C37_RollbackOwnBranch ==
    [][(ops_done' # ops_done /\ last_op'.kind = "rollback_state" /\ last_op'.applied) =>
          state_history[HistoryIndex(last_op'.steps)].branch = last_op'.branch]_vars

\* C38: an update_state on one branch changes neither the state get_state
\* returns for another branch nor the content of a snapshot recorded in
\* state_history.
C38_UpdateChangesOnlyItsBranch ==
    [][(ops_done' # ops_done /\ last_op'.kind = "update_state") =>
          /\ \A branch \in DOMAIN branches \ {last_op'.branch} :
                GetState(objects', branches', branch) = GetState(objects, branches, branch)
          /\ \A i \in DOMAIN state_history :
                View(objects', state_history'[i].state)
                    = View(objects, state_history[i].state)]_vars

\* C39: when broadcast has returned, receive_message has run once for
\* every agent of the team other than the sender, or a send_message for
\* the agent is scheduled on the event loop. The formula states it for a
\* sender that is an agent of the team.
C39_BroadcastDelivers ==
    (bpc = "returned" /\ sender_id \in Range(team_agents)) =>
        \A agent_id \in Range(team_agents) \ {sender_id} :
            \/ received[agent_id] = 1
            \/ \E i \in DOMAIN coroutines :
                  /\ coroutines[i].recipient_id = agent_id
                  /\ coroutines[i].state = "scheduled"

====
